---- MODULE Spec2Model ----
(***************************************************************************)
(* Model of the benchmark orchestrator (scripts/benchmark_orchestrator.py) *)
(* and of the helpers it uses from scripts/benchmark_utils.py.             *)
(*                                                                         *)
(* The main thread runs run_benchmark; every submitted future is a task    *)
(* that runs benchmark_function_all_memory.  A task's pc names the         *)
(* blocking call the task is currently in; an action is the completion of  *)
(* that call (normally, or by raising).                                    *)
(***************************************************************************)
EXTENDS Integers, Sequences, FiniteSets, TLC

\* ------------------------------------------------------------------------
\* Program constants (benchmark_orchestrator.py, "Benchmark Constants")
\* ------------------------------------------------------------------------
LAMBDA_MEMORY_MIN_MB == 128
LAMBDA_MEMORY_MAX_MB == 10240
LAMBDA_MEMORY_TOGGLE_MB == 64
\* 0.05 s, kept in milliseconds
COLD_START_STABILIZATION_DELAY_MS == 50
LAMBDA_INVOKE_MAX_RETRIES == 3
LAMBDA_INVOKE_BACKOFF_BASE_SECONDS == 1

\* ------------------------------------------------------------------------
\* Bounds of the model
\* ------------------------------------------------------------------------
\* number of Lambda functions deployed in the stack in the pool scenarios
NumSubjects == 2
\* longest list of values given to percentile and to calculate_statistics
MaxSamples == 5
\* longest identifier given to parse_config_id that make_config_id did not build
MaxIdLen == 5
\* largest number of cold and of warm samples of the single configuration
MaxPerConfig == 2

\* ------------------------------------------------------------------------
\* Small helpers
\* ------------------------------------------------------------------------
Max(a, b) == IF a >= b THEN a ELSE b
Min(a, b) == IF a <= b THEN a ELSE b

RECURSIVE Pow2(_)
Pow2(n) == IF n = 0 THEN 1 ELSE 2 * Pow2(n - 1)

\* [x for x in s if P(x)]
RECURSIVE SelectMem(_, _)
SelectMem(s, keep) ==
    IF s = <<>> THEN <<>>
    ELSE IF Head(s) \in keep THEN <<Head(s)>> \o SelectMem(Tail(s), keep)
    ELSE SelectMem(Tail(s), keep)

Range(s) == {s[k] : k \in 1..Len(s)}

\* Python's None
None == "None"

\* ------------------------------------------------------------------------
\* benchmark_utils.MEMORY_CONFIGS and the deployed functions
\* ------------------------------------------------------------------------
MEMORY_CONFIGS(workload_type) ==
    CASE workload_type = "cpu-intensive" -> <<128, 256, 512, 1024, 1769, 2048>>
      [] workload_type = "memory-intensive" ->
            <<128, 256, 512, 1024, 1769, 2048, 4096, 8192, 10240>>
      [] workload_type = "light" -> <<128, 256, 512, 1024, 1769, 2048>>
      [] OTHER -> <<1769>>

\* The functions of the stack are numbered in the sorted order of their
\* names; function f is a "light" workload when f is odd and a
\* "memory-intensive" one when f is even.
WorkloadType(func) == IF func % 2 = 1 THEN "light" ELSE "memory-intensive"

\* get_memory_configs_for_workload
get_memory_configs_for_workload(workload_type, cfg) ==
    IF cfg.memory_configs_to_test # {}
    THEN SelectMem(MEMORY_CONFIGS(workload_type), cfg.memory_configs_to_test)
    ELSE MEMORY_CONFIGS(workload_type)

\* ------------------------------------------------------------------------
\* Inputs of a run: what is deployed and the BenchmarkConfig passed in
\* ------------------------------------------------------------------------
\* the presets; memory_configs_to_test = None is the empty set
TEST_CONFIG ==
    [cold_starts_per_config |-> 2, warm_starts_per_config |-> 2,
     memory_configs_to_test |-> {}, max_workers |-> 12]

BALANCED_CONFIG ==
    [cold_starts_per_config |-> 10, warm_starts_per_config |-> 20,
     memory_configs_to_test |-> {}, max_workers |-> 12]

PRODUCTION_CONFIG ==
    [cold_starts_per_config |-> 125, warm_starts_per_config |-> 500,
     memory_configs_to_test |-> {}, max_workers |-> 12]

\* TEST_CONFIG restricted with --mem 128 256
SweepConfig ==
    [cold_starts_per_config |-> 2, warm_starts_per_config |-> 2,
     memory_configs_to_test |-> {128, 256}, max_workers |-> 12]

\* one cold sample and no warm sample per configuration, --mem 128,
\* --workers w
PairConfig(w) ==
    [cold_starts_per_config |-> 1, warm_starts_per_config |-> 0,
     memory_configs_to_test |-> {128}, max_workers |-> w]

\* no sample at all (only the controller and the two aggregates run),
\* --mem 128, --workers w
PoolConfig(w) ==
    [cold_starts_per_config |-> 0, warm_starts_per_config |-> 0,
     memory_configs_to_test |-> {128}, max_workers |-> w]

\* The runs that are explored.  deployed: number of functions in the stack;
\* memory: the memory setting they were deployed with.
\*   - one function swept over two sizes with two samples per phase;
\*   - two functions, one size, one cold sample, one or two workers;
\*   - NumSubjects functions, one size, no sample, 1..NumSubjects workers.
Scenarios ==
    {[deployed |-> 1, config |-> SweepConfig, memory |-> 128]}
    \cup {[deployed |-> 2, config |-> PairConfig(w), memory |-> 1769] : w \in 1..2}
    \cup {[deployed |-> NumSubjects, config |-> PoolConfig(w), memory |-> 1769] :
             w \in 1..NumSubjects}

\* ------------------------------------------------------------------------
\* Errors the platform clients can raise
\* ------------------------------------------------------------------------
TransientCodes == {"TooManyRequestsException", "ServiceException"}
\* ClientError codes lambda_client.invoke can raise
InvokeErrorCodes == TransientCodes \cup {"ResourceNotFoundException"}
\* an exception of invoke that is no ClientError
NonClientError == "ReadTimeoutError"

\* ------------------------------------------------------------------------
\* Configuration identifiers (benchmark_utils)
\* ------------------------------------------------------------------------
\* A Python str is the sequence of its characters.
Digits == <<"0", "1", "2", "3", "4", "5", "6", "7", "8", "9">>

RECURSIVE DecimalDigits(_)
DecimalDigits(n) ==
    IF n < 10 THEN <<Digits[n + 1]>>
    ELSE DecimalDigits(n \div 10) \o <<Digits[(n % 10) + 1]>>

\* f"{n}" for an int n
FormatInt(n) == IF n < 0 THEN <<"-">> \o DecimalDigits(0 - n) ELSE DecimalDigits(n)

\* a call that returns v, and one that raises e and so returns nothing
Return(v) == [error |-> None, result |-> <<v>>]
Raise(e) == [error |-> e, result |-> <<>>]

RECURSIVE DecimalValue(_)
DecimalValue(s) ==
    IF s = <<>> THEN 0
    ELSE 10 * DecimalValue(SubSeq(s, 1, Len(s) - 1))
         + ((CHOOSE d \in 1..10 : Digits[d] = s[Len(s)]) - 1)

\* int(s) for a str of letters, digits, "." and "-": a ValueError unless s
\* is a non-empty run of digits after an optional sign
ParseInt(s) ==
    LET body == IF s # <<>> /\ s[1] = "-" THEN Tail(s) ELSE s IN
    IF body = <<>> \/ \E k \in 1..Len(body) : body[k] \notin Range(Digits)
    THEN Raise("ValueError")
    ELSE Return(IF body = s THEN DecimalValue(body) ELSE 0 - DecimalValue(body))

\* s.split("-", maxsplit): splits at the leftmost hyphens
RECURSIVE Split(_, _)
Split(s, maxsplit) ==
    LET hyphens == {k \in 1..Len(s) : s[k] = "-"} IN
    IF maxsplit = 0 \/ hyphens = {} THEN <<s>>
    ELSE LET k == CHOOSE h \in hyphens : \A g \in hyphens : h <= g
         IN <<SubSeq(s, 1, k - 1)>> \o Split(SubSeq(s, k + 1, Len(s)), maxsplit - 1)

\* s.rsplit("-", maxsplit): splits at the rightmost hyphens
RECURSIVE RSplit(_, _)
RSplit(s, maxsplit) ==
    LET hyphens == {k \in 1..Len(s) : s[k] = "-"} IN
    IF maxsplit = 0 \/ hyphens = {} THEN <<s>>
    ELSE LET k == CHOOSE h \in hyphens : \A g \in hyphens : h >= g
         IN RSplit(SubSeq(s, 1, k - 1), maxsplit - 1) \o <<SubSeq(s, k + 1, Len(s))>>

\* an identifier with no delimiter before the memory size
make_config_idNoDelimiter(function_info, memory_size) ==
    function_info.runtime \o <<"-">> \o function_info.architecture \o <<"-">>
        \o function_info.workloadType \o FormatInt(memory_size)

\* make_config_id: f"{runtime}-{architecture}-{workloadType}-{memory_mb}"
make_config_id(function_info, memory_size) ==
    function_info.runtime \o <<"-">> \o function_info.architecture \o <<"-">>
        \o function_info.workloadType \o <<"-">> \o FormatInt(memory_size)

\* a parser that asks for two components before the memory size only
parse_config_idTwoFields(config_id) ==
    LET parts == RSplit(config_id, 1) IN
    IF Len(parts) # 2 THEN Raise("ValueError")
    ELSE LET left_parts == RSplit(parts[1], 1)
             memory == ParseInt(parts[2])
         IN IF Len(left_parts) < 2 \/ memory.error # None THEN Raise("ValueError")
            ELSE Return([runtime |-> left_parts[1],
                         architecture |-> left_parts[2],
                         workloadType |-> <<>>,
                         memorySizeMB |-> memory.result[1]])

\* parse_config_id: the dict returned, or the ValueError raised
parse_config_id(config_id) ==
    LET parts == RSplit(config_id, 1) IN
    IF Len(parts) # 2 THEN Raise("ValueError")
    ELSE LET left_parts == RSplit(parts[1], 2) IN
         IF Len(left_parts) < 3 THEN Raise("ValueError")
         ELSE LET n == Len(left_parts)
                  memory == ParseInt(parts[2])
              IN IF memory.error # None THEN Raise("ValueError")
                 ELSE Return([runtime |-> left_parts[1],
                              architecture |->
                                  IF n = 3 THEN left_parts[2] ELSE left_parts[n - 1],
                              workloadType |->
                                  IF n = 3 THEN left_parts[3] ELSE left_parts[n],
                              memorySizeMB |-> memory.result[1]])

\* the strings the identifiers are built from
python3_13 == <<"p", "y", "t", "h", "o", "n", "3", ".", "1", "3">>
nodejs22 == <<"n", "o", "d", "e", "j", "s", "2", "2">>
arm64 == <<"a", "r", "m", "6", "4">>
x86 == <<"x", "8", "6">>
light == <<"l", "i", "g", "h", "t">>
cpu_intensive == <<"c", "p", "u", "-", "i", "n", "t", "e", "n", "s", "i", "v", "e">>
memory_intensive == <<"m", "e", "m", "o", "r", "y", "-", "i", "n", "t", "e", "n", "s", "i", "v", "e">>

\* runtimes without a hyphen, the two architectures, workload types without
\* and with hyphens, memory sizes
Runtimes == {python3_13, nodejs22, <<"r">>, <<>>}
Architectures == {arm64, x86}
PlainWorkloads == {light, <<"c">>, <<"c", "1">>, <<>>}
HyphenatedWorkloads == {cpu_intensive, memory_intensive, <<"c", "-", "1">>, <<"c", "-">>}
MemorySizes == {2, 12, LAMBDA_MEMORY_MIN_MB, 1769, LAMBDA_MEMORY_MAX_MB}

ConfigTuples ==
    [runtime : Runtimes, architecture : Architectures,
     workloadType : PlainWorkloads \cup HyphenatedWorkloads,
     memorySizeMB : MemorySizes]

NoTuple == [runtime |-> <<>>, architecture |-> <<>>, workloadType |-> <<>>,
            memorySizeMB |-> 0]

\* identifiers that no make_config_id built
IdAlphabet == {"a", "7", "-"}
IdStrings == UNION {[1..n -> IdAlphabet] : n \in 0..MaxIdLen}

\* number of hyphen-delimited components of a str
Components(s) == Cardinality({k \in 1..Len(s) : s[k] = "-"}) + 1

\* get_deployed_functions: the dict of function func, whose runtime,
\* architecture and workload type parse_function_name reads from its name;
\* functions of different names differ in one of the three
function_info(func) ==
    [name |-> func,
     runtime |-> IF ((func - 1) \div 4) % 2 = 0 THEN python3_13 ELSE nodejs22,
     architecture |-> IF ((func - 1) \div 2) % 2 = 0 THEN arm64 ELSE x86,
     workloadType |-> IF WorkloadType(func) = "light" THEN light
                      ELSE memory_intensive]

\* the id of the run, part of every key
test_run_id == "test-run"

\* ------------------------------------------------------------------------
\* The execution report (parse_cloudwatch_report, invoke_function)
\* ------------------------------------------------------------------------
\* A text is the sequence of its words: a number or a request id is the
\* sequence of its characters, any other word w is <<w>>, and <<"\n">> ends a
\* line.  LogResult is given as the text it encodes.  A dict is a function
\* on its keys; a key whose value is None is left out of it.

\* float(s), in hundredths, of digits with at most two of them after a "."
ParseFloat(s) ==
    LET dots == {k \in 1..Len(s) : s[k] = "."}
        dot == IF dots = {} THEN Len(s) + 1
               ELSE CHOOSE k \in dots : \A j \in dots : k <= j
        frac == SubSeq(s, dot + 1, Len(s))
    IN 100 * DecimalValue(SubSeq(s, 1, dot - 1))
       + (IF Len(frac) = 1 THEN 10 * DecimalValue(frac) ELSE DecimalValue(frac))

\* re.search(r"<words>\s+([<chars>]+)\s+<unit>", line): group(1) of the
\* leftmost match, as <<number>>, or <<>> when nothing matches
Search(line, words, chars, unit) ==
    LET w == Len(words)
        matches == {i \in 1..(Len(line) - w - 1) :
                       /\ SubSeq(line, i, i + w - 1) = words
                       /\ line[i + w] # <<>>
                       /\ Range(line[i + w]) \subseteq chars
                       /\ line[i + w + 1] = unit}
    IN IF matches = {} THEN <<>>
       ELSE <<line[(CHOOSE i \in matches : \A j \in matches : i <= j) + w]>>

\* parse_cloudwatch_report: the metrics of the REPORT line of the log
parse_cloudwatch_report(log_result) ==
    IF log_result = <<>> THEN <<>>
    ELSE
    LET log_text == log_result
        HexPrefix(word) ==
            SubSeq(word, 1, CHOOSE n \in 0..Len(word) :
                /\ \A k \in 1..n : word[k] \in (Range(Digits) \cup
                                      {"a", "b", "c", "d", "e", "f", "-"})
                /\ n < Len(word) => word[n + 1] \notin (Range(Digits) \cup
                                      {"a", "b", "c", "d", "e", "f", "-"}))
        report_matches == {i \in 1..(Len(log_text) - 2) :
                              /\ log_text[i] = <<"REPORT">>
                              /\ log_text[i + 1] = <<"RequestId:">>
                              /\ HexPrefix(log_text[i + 2]) # <<>>}
    IN IF report_matches = {} THEN <<>>
       ELSE
       LET first == CHOOSE i \in report_matches : \A j \in report_matches : i <= j
           ends == {k \in first..Len(log_text) : log_text[k] = <<"\n">>}
           last == IF ends = {} THEN Len(log_text)
                   ELSE (CHOOSE k \in ends : \A j \in ends : k <= j) - 1
           report_line == SubSeq(log_text, first, last)
           duration_match ==
               Search(report_line, << <<"Duration:">> >>,
                      Range(Digits) \cup {"."}, <<"ms">>)
           billed_match ==
               Search(report_line, << <<"Billed">>, <<"Duration:">> >>,
                      Range(Digits), <<"ms">>)
           memory_match ==
               Search(report_line, << <<"Max">>, <<"Memory">>, <<"Used:">> >>,
                      Range(Digits), <<"MB">>)
           init_match ==
               Search(report_line, << <<"Init">>, <<"Duration:">> >>,
                      Range(Digits) \cup {"."}, <<"ms">>)
       IN ("lambda_request_id" :> HexPrefix(log_text[first + 2]))
          @@ (IF duration_match # <<>>
              THEN "duration_ms" :> ParseFloat(duration_match[1]) ELSE <<>>)
          @@ (IF billed_match # <<>>
              THEN "billed_duration_ms" :> DecimalValue(billed_match[1]) ELSE <<>>)
          @@ (IF memory_match # <<>>
              THEN "memory_used_mb" :> DecimalValue(memory_match[1]) ELSE <<>>)
          @@ (IF init_match # <<>>
              THEN "init_duration_ms" :> ParseFloat(init_match[1]) ELSE <<>>)

\* a sample whose success is that of the transport
invoke_functionTransportSuccess(response) ==
    LET metrics == IF "FunctionError" \notin DOMAIN response
                   THEN parse_cloudwatch_report(
                            IF "LogResult" \in DOMAIN response
                            THEN response.LogResult ELSE <<>>)
                   ELSE <<>>
        get(key, name) ==
            IF name \in DOMAIN metrics THEN key :> metrics[name] ELSE <<>>
    IN [success |-> response.StatusCode = 200,
        statusCode |-> response.StatusCode,
        lambdaRequestId |-> IF "lambda_request_id" \in DOMAIN metrics
                            THEN metrics.lambda_request_id ELSE <<"unknown">>]
       @@ get("durationMs", "duration_ms")
       @@ get("billedDurationMs", "billed_duration_ms")
       @@ get("memoryUsedMB", "memory_used_mb")
       @@ get("initDurationMs", "init_duration_ms")

\* invoke_function: the sample built from the response of lambda_client.invoke
\* (its "result", the payload itself, is used nowhere and left out)
invoke_function(response) ==
    LET result == response.Payload
        metrics == IF "FunctionError" \notin DOMAIN response
                   THEN parse_cloudwatch_report(
                            IF "LogResult" \in DOMAIN response
                            THEN response.LogResult ELSE <<>>)
                   ELSE <<>>
        get(key, name) ==
            IF name \in DOMAIN metrics THEN key :> metrics[name] ELSE <<>>
        lambda_request_id ==
            IF "lambda_request_id" \in DOMAIN metrics
            THEN metrics.lambda_request_id
            ELSE IF "requestId" \in DOMAIN result THEN result.requestId
            ELSE <<"unknown">>
    IN [success |-> IF "success" \in DOMAIN result THEN result.success ELSE FALSE,
        statusCode |-> response.StatusCode,
        lambdaRequestId |-> lambda_request_id]
       @@ get("durationMs", "duration_ms")
       @@ get("billedDurationMs", "billed_duration_ms")
       @@ get("memoryUsedMB", "memory_used_mb")
       @@ get("initDurationMs", "init_duration_ms")

\* the REPORT line that carries the given fields, and a response with it
ReportLine(request_id, fields, duration) ==
    << <<"REPORT">>, <<"RequestId:">>, request_id >>
    \o (IF "Duration" \in fields
        THEN << <<"Duration:">>, duration, <<"ms">> >> ELSE <<>>)
    \o (IF "Billed Duration" \in fields
        THEN << <<"Billed">>, <<"Duration:">>, <<"1", "3">>, <<"ms">> >> ELSE <<>>)
    \o (IF "Memory Size" \in fields
        THEN << <<"Memory">>, <<"Size:">>, <<"1", "2", "8">>, <<"MB">> >> ELSE <<>>)
    \o (IF "Max Memory Used" \in fields
        THEN << <<"Max">>, <<"Memory">>, <<"Used:">>, <<"5", "0">>, <<"MB">> >>
        ELSE <<>>)
    \o (IF "Init Duration" \in fields
        THEN << <<"Init">>, <<"Duration:">>, <<"2", "5", "0", ".", "5">>, <<"ms">> >>
        ELSE <<>>)

\* no call of the two utilities has been made
NotParsed == [error |-> None, result |-> <<>>]
UtilIdle == [pc |-> "idle", tuple |-> NoTuple, config_id |-> <<>>,
             parsed |-> NotParsed]

VARIABLES
    config,       \* the BenchmarkConfig of the run
    deployed,     \* number of Lambda functions in the stack
    live,         \* live[f]: MemorySize the platform holds for function f
    warmth,       \* warmth[f]: target of the last completed force_cold_start
                  \* and the number of invocations answered since the last
                  \* update of the configuration of f
    testRun,      \* the test-run item of the results table
    samples,      \* the result items of the results table
    aggregates,   \* the aggregate items of the results table
    mpc,          \* position of the main thread in run_benchmark
    functions,    \* run_benchmark's list of discovered functions
    tasks,        \* the submitted futures, in submission order
    yielded,      \* futures as_completed has already yielded
    completed,    \* run_benchmark's counter
    failed,       \* run_benchmark's counter
    aborted,      \* run_benchmark's flag
    interrupted,  \* a KeyboardInterrupt was delivered to the main thread
    util          \* a call sequence make_config_id / parse_config_id: the
                  \* tuple given, the identifier and the outcome of parsing

vars == <<config, deployed, live, warmth, testRun, samples, aggregates, mpc,
          functions, tasks, yielded, completed, failed, aborted, interrupted,
          util>>

mainVars == <<mpc, functions, yielded, completed, failed, aborted, interrupted, testRun>>
storeVars == <<samples, aggregates>>
inputVars == <<config, deployed, util>>

\* ------------------------------------------------------------------------
\* Results table (DynamoDB)
\* ------------------------------------------------------------------------
NoTestRun ==
    [status |-> "absent", mode |-> None, totalConfigurations |-> 0,
     totalInvocations |-> 0, coldStartsPerConfig |-> 0,
     warmStartsPerConfig |-> 0, failedInvocations |-> 0, errorSummary |-> <<>>]

\* run_benchmark, "Determine mode based on config"
ModeOf(cfg) ==
    IF cfg.cold_starts_per_config >= 100 THEN "production"
    ELSE IF cfg.cold_starts_per_config >= 50 THEN "balanced"
    ELSE "test"

\* create_test_run_item: the item put into the table
create_test_run_item(mode, total_configurations, cold_starts_per_config, warm_starts_per_config) ==
    [status |-> "in_progress", mode |-> mode,
     totalConfigurations |-> total_configurations,
     totalInvocations |->
         total_configurations * (cold_starts_per_config + warm_starts_per_config),
     coldStartsPerConfig |-> cold_starts_per_config,
     warmStartsPerConfig |-> warm_starts_per_config,
     failedInvocations |-> 0, errorSummary |-> <<>>]

\* update_test_run_status: SET #status, failedInvocations and, when an
\* error summary is given, errorSummary (<<>> stands for None)
update_test_run_status(item, status, failed_invocations, error_summary) ==
    [item EXCEPT !.status = status,
                 !.failedInvocations = failed_invocations,
                 !.errorSummary = IF error_summary # <<>> THEN error_summary ELSE @]

\* table.put_item: an item with the same key is replaced
SampleKey(x) == <<x.pk, x.sk>>
AggregateKey(x) == <<x.pk, x.sk>>

PutSample(table, item) ==
    {x \in table : SampleKey(x) # SampleKey(item)} \cup {item}

PutAggregate(table, item) ==
    {x \in table : AggregateKey(x) # AggregateKey(item)} \cup {item}

\* a sample item whose sort key leaves the invocation number out
store_resultUnnumbered(func, memory_mb, is_cold_start, invocation_result, invocation_number) ==
    LET get(key, name) ==
            IF name \in DOMAIN invocation_result
            THEN key :> invocation_result[name] ELSE <<>>
    IN [pk |-> <<test_run_id, make_config_id(function_info(func), memory_mb)>>,
        sk |-> <<IF is_cold_start THEN "cold" ELSE "warm", 0>>,
        func |-> func, memorySizeMB |-> memory_mb,
        invocationType |-> IF is_cold_start THEN "cold" ELSE "warm",
        invocationNumber |-> invocation_number,
        lambdaRequestId |-> invocation_result.lambdaRequestId,
        success |-> invocation_result.success]
       @@ get("durationMs", "durationMs")
       @@ get("billedDurationMs", "billedDurationMs")
       @@ get("maxMemoryUsedMB", "memoryUsedMB")
       @@ (IF is_cold_start THEN get("initDurationMs", "initDurationMs") ELSE <<>>)

\* a sample item that carries the init duration of a warm invocation too
store_resultInitOfWarm(func, memory_mb, is_cold_start, invocation_result, invocation_number) ==
    LET get(key, name) ==
            IF name \in DOMAIN invocation_result
            THEN key :> invocation_result[name] ELSE <<>>
    IN [pk |-> <<test_run_id, make_config_id(function_info(func), memory_mb)>>,
        sk |-> <<IF is_cold_start THEN "cold" ELSE "warm", invocation_number>>,
        func |-> func, memorySizeMB |-> memory_mb,
        invocationType |-> IF is_cold_start THEN "cold" ELSE "warm",
        invocationNumber |-> invocation_number,
        lambdaRequestId |-> invocation_result.lambdaRequestId,
        success |-> invocation_result.success]
       @@ get("durationMs", "durationMs")
       @@ get("billedDurationMs", "billedDurationMs")
       @@ get("maxMemoryUsedMB", "memoryUsedMB")
       @@ get("initDurationMs", "initDurationMs")

\* a sample item that keeps the fields without a value, as 0
store_resultKeepsNone(func, memory_mb, is_cold_start, invocation_result, invocation_number) ==
    LET get(key, name) ==
            IF name \in DOMAIN invocation_result
            THEN key :> invocation_result[name] ELSE key :> 0
    IN [pk |-> <<test_run_id, make_config_id(function_info(func), memory_mb)>>,
        sk |-> <<IF is_cold_start THEN "cold" ELSE "warm", invocation_number>>,
        func |-> func, memorySizeMB |-> memory_mb,
        invocationType |-> IF is_cold_start THEN "cold" ELSE "warm",
        invocationNumber |-> invocation_number,
        lambdaRequestId |-> invocation_result.lambdaRequestId,
        success |-> invocation_result.success]
       @@ get("durationMs", "durationMs")
       @@ get("billedDurationMs", "billedDurationMs")
       @@ get("maxMemoryUsedMB", "memoryUsedMB")
       @@ (IF is_cold_start THEN get("initDurationMs", "initDurationMs") ELSE <<>>)

\* store_result: the item written for one invocation, with
\* pk = f"{test_run_id}#{config_id}" and sk = f"{invocation_type}#{invocation_number}";
\* a field without a value is not written (to_decimal turns the float into
\* the Decimal of the same digits)
store_result(func, memory_mb, is_cold_start, invocation_result, invocation_number) ==
    LET get(key, name) ==
            IF name \in DOMAIN invocation_result
            THEN key :> invocation_result[name] ELSE <<>>
    IN [pk |-> <<test_run_id, make_config_id(function_info(func), memory_mb)>>,
        sk |-> <<IF is_cold_start THEN "cold" ELSE "warm", invocation_number>>,
        func |-> func, memorySizeMB |-> memory_mb,
        invocationType |-> IF is_cold_start THEN "cold" ELSE "warm",
        invocationNumber |-> invocation_number,
        lambdaRequestId |-> invocation_result.lambdaRequestId,
        success |-> invocation_result.success]
       @@ get("durationMs", "durationMs")
       @@ get("billedDurationMs", "billedDurationMs")
       @@ get("maxMemoryUsedMB", "memoryUsedMB")
       @@ (IF is_cold_start THEN get("initDurationMs", "initDurationMs") ELSE <<>>)

IsSuccess(x) == x.success

\* len([x for x in s if x is a success]) and its complement
CountSuccess(s) == Cardinality({k \in 1..Len(s) : IsSuccess(s[k])})
CountFailure(s) == Cardinality({k \in 1..Len(s) : ~IsSuccess(s[k])})

\* ------------------------------------------------------------------------
\* Statistics (benchmark_utils)
\* ------------------------------------------------------------------------
\* A number is given in hundredths and a value p in [0, 1] in percent, so
\* that round(x, 2) is a rounding to a whole number.  The arithmetic is
\* exact; percentile, which does not round, returns hundredths of hundredths.

\* the values in the order given
Unsorted(values) == values

\* sorted(values)
RECURSIVE Sorted(_)
Sorted(values) ==
    LET RECURSIVE Insert(_, _)
        Insert(x, s) ==
            IF s = <<>> THEN <<x>>
            ELSE IF x < Head(s) THEN <<x>> \o s
            ELSE <<Head(s)>> \o Insert(x, Tail(s))
    IN IF values = <<>> THEN <<>>
       ELSE Insert(Head(values), Sorted(Tail(values)))

RECURSIVE Sum(_)
Sum(values) == IF values = <<>> THEN 0 ELSE Head(values) + Sum(Tail(values))

\* round(num / den, 2) for num / den in hundredths: the nearest whole number,
\* the even one of two equally near
Round2(num, den) ==
    LET q == num \div den
        r == num % den
    IN IF 2 * r < den THEN q
       ELSE IF 2 * r > den THEN q + 1
       ELSE IF q % 2 = 0 THEN q ELSE q + 1

\* a percentile that takes the element below the rank, without interpolation
percentileNoInterpolation(sorted_vals, p) ==
    IF sorted_vals = <<>> THEN 0
    ELSE 100 * sorted_vals[((p * (Len(sorted_vals) - 1)) \div 100) + 1]

\* a percentile that is 0 for a single element as for none
percentileZeroForOne(sorted_vals, p) ==
    LET n == Len(sorted_vals)
        rank == p * (n - 1)
        lower_idx == rank \div 100
        upper_idx == Min(lower_idx + 1, n - 1)
    IN IF n <= 1 THEN 0
       ELSE 100 * sorted_vals[lower_idx + 1]
            + (rank % 100) * (sorted_vals[upper_idx + 1] - sorted_vals[lower_idx + 1])

\* percentile(sorted_vals, p): linear interpolation between the ranks
percentile(sorted_vals, p) ==
    IF sorted_vals = <<>> THEN 0
    ELSE LET n == Len(sorted_vals) IN
         IF n = 1 THEN 100 * sorted_vals[1]
         ELSE LET rank == p * (n - 1)
                  lower_idx == rank \div 100
                  upper_idx == Min(lower_idx + 1, n - 1)
                  fraction == rank % 100
              IN 100 * sorted_vals[lower_idx + 1]
                 + fraction * (sorted_vals[upper_idx + 1] - sorted_vals[lower_idx + 1])

\* statistics.median
StatMedian(values) ==
    LET srt == Sorted(values)
        n == Len(values)
    IN IF n % 2 = 1 THEN srt[(n + 1) \div 2]
       ELSE Round2(srt[n \div 2] + srt[(n \div 2) + 1], 2)

\* statistics.stdev, rounded: round(sqrt(a / b), 2) with the sample variance
\* a / b = (n * sum(x^2) - sum(x)^2) / (n * (n - 1)); the whole number
\* nearest to sqrt(a / b) is (r + 1) \div 2 for the largest r with
\* r^2 <= 4 a / b
StatStdev(values) ==
    LET n == Len(values)
        squares == [k \in 1..n |-> values[k] * values[k]]
        a == n * Sum(squares) - Sum(values) * Sum(values)
        b == n * (n - 1)
        x == (4 * a) \div b
        RECURSIVE ISqrtBetween(_, _)
        ISqrtBetween(lo, hi) ==
            IF lo = hi THEN lo
            ELSE LET mid == (lo + hi + 1) \div 2
                 IN IF mid * mid <= x THEN ISqrtBetween(mid, hi)
                    ELSE ISqrtBetween(lo, mid - 1)
    IN IF n > 1 THEN (ISqrtBetween(0, Min(x, 46340)) + 1) \div 2 ELSE 0

\* Counter(rounded_values).most_common(1)[0][0]: the most frequent value,
\* the first met of several equally frequent ones
MostCommon(rounded_values) ==
    LET count(k) == Cardinality({j \in 1..Len(rounded_values) :
                                    rounded_values[j] = rounded_values[k]})
        first == CHOOSE k \in 1..Len(rounded_values) :
                    /\ \A j \in 1..Len(rounded_values) : count(j) <= count(k)
                    /\ \A j \in 1..(k - 1) : count(j) < count(k)
    IN rounded_values[first]

\* the values the statistics are computed from when the extremes stay in
calc_valuesUntrimmed(values, remove_outliers) == values

\* calculate_statistics, "calc_values = sorted_values[1:-1] if
\* remove_outliers and n >= 5 else values"
calc_values(values, remove_outliers) ==
    IF remove_outliers /\ Len(values) >= 5
    THEN SubSeq(Sorted(values), 2, Len(values) - 1)
    ELSE values

\* a summary whose min and max are those of the values computed from
calculate_statisticsExtremesOfCalc(values, remove_outliers) ==
    IF values = <<>> THEN <<>>
    ELSE LET calc == calc_values(values, remove_outliers)
             sorted_calc == Sorted(calc)
         IN << [mean |-> Round2(Sum(calc), Len(calc)),
                median |-> StatMedian(calc),
                mode |-> MostCommon(calc),
                min |-> sorted_calc[1],
                max |-> sorted_calc[Len(calc)],
                stdev |-> StatStdev(calc),
                p50 |-> Round2(percentile(sorted_calc, 50), 100),
                p90 |-> Round2(percentile(sorted_calc, 90), 100),
                p95 |-> Round2(percentile(sorted_calc, 95), 100),
                p99 |-> Round2(percentile(sorted_calc, 99), 100),
                sampleCount |-> Len(values),
                outliersRemoved |-> (remove_outliers /\ Len(values) >= 5)] >>

\* calculate_statistics: {} (here <<>>) for no values, else the dict
calculate_statistics(values, remove_outliers) ==
    IF values = <<>> THEN <<>>
    ELSE LET sorted_values == Sorted(values)
             n == Len(sorted_values)
             calc == calc_values(values, remove_outliers)
             rounded_values == [k \in 1..Len(calc) |-> Round2(calc[k], 1)]
             sorted_calc == Sorted(calc)
         IN << [mean |-> Round2(Sum(calc), Len(calc)),
                median |-> StatMedian(calc),
                mode |-> IF calc # <<>> THEN MostCommon(rounded_values)
                         ELSE sorted_values[1],
                min |-> Round2(sorted_values[1], 1),
                max |-> Round2(sorted_values[n], 1),
                stdev |-> StatStdev(calc),
                p50 |-> Round2(percentile(sorted_calc, 50), 100),
                p90 |-> Round2(percentile(sorted_calc, 90), 100),
                p95 |-> Round2(percentile(sorted_calc, 95), 100),
                p99 |-> Round2(percentile(sorted_calc, 99), 100),
                sampleCount |-> n,
                outliersRemoved |-> (remove_outliers /\ n >= 5)] >>

\* [s[key] for s in smpls if s.get(key) is not None], in hundredths:
\* scale is 1 for a float and 100 for an int
MetricOf(smpls, key, scale) ==
    LET Has(x) == key \in DOMAIN x
        present == SelectSeq(smpls, Has)
    IN [k \in 1..Len(present) |-> scale * present[k][key]]

\* an aggregate computed from all samples, failed ones included
write_aggregateOfAllSamples(func, memory_mb, invocation_type, smpls) ==
    [pk |-> <<"TESTRUN", test_run_id>>,
     sk |-> <<"AGGREGATE", make_config_id(function_info(func), memory_mb),
              invocation_type>>,
     func |-> func, memorySizeMB |-> memory_mb,
     invocationType |-> invocation_type,
     sampleCount |-> Len(smpls),
     allSuccessful |-> (CountFailure(smpls) = 0),
     failedCount |-> CountFailure(smpls),
     durationMsStats |-> calculate_statistics(MetricOf(smpls, "durationMs", 1), TRUE),
     billedDurationMsStats |->
         calculate_statistics(MetricOf(smpls, "billedDurationMs", 100), TRUE),
     memoryMBStats |->
         calculate_statistics(MetricOf(smpls, "memoryUsedMB", 100), TRUE)]

\* write_aggregate: the item written for one (configuration, invocation
\* type), with pk = f"TESTRUN#{test_run_id}" and
\* sk = f"AGGREGATE#{config_id}#{invocation_type}"
write_aggregate(func, memory_mb, invocation_type, smpls) ==
    LET successful_samples == SelectSeq(smpls, IsSuccess)
        failed_count == Len(smpls) - Len(successful_samples)
    IN [pk |-> <<"TESTRUN", test_run_id>>,
        sk |-> <<"AGGREGATE", make_config_id(function_info(func), memory_mb),
                 invocation_type>>,
        func |-> func, memorySizeMB |-> memory_mb,
        invocationType |-> invocation_type,
        sampleCount |-> Len(successful_samples),
        allSuccessful |-> (failed_count = 0),
        failedCount |-> failed_count,
        durationMsStats |->
            calculate_statistics(MetricOf(successful_samples, "durationMs", 1), TRUE),
        billedDurationMsStats |->
            calculate_statistics(MetricOf(successful_samples, "billedDurationMs", 100), TRUE),
        memoryMBStats |->
            calculate_statistics(MetricOf(successful_samples, "memoryUsedMB", 100), TRUE)]
       @@ (IF invocation_type = "cold"
              /\ MetricOf(successful_samples, "initDurationMs", 1) # <<>>
           THEN "initDurationMsStats" :>
                   calculate_statistics(MetricOf(successful_samples, "initDurationMs", 1), TRUE)
           ELSE <<>>)

\* ------------------------------------------------------------------------
\* Tasks: one record per future
\* ------------------------------------------------------------------------
NewTask(func) ==
    [func |-> func, pc |-> "queued", mems |-> <<>>, mi |-> 1, memory_mb |-> 0,
     phase |-> None, i |-> 0, attempt |-> 0, current_memory |-> 0,
     cold_samples |-> <<>>, warm_samples |-> <<>>, results |-> <<>>,
     trace |-> <<>>, waits |-> <<>>, fault |-> None, error_msg |-> None]

Finished(tk) == tk.pc \in {"done", "raised"}
Running(tk) == tk.pc \notin {"queued", "done", "raised"}
TaskIds == 1..Len(tasks)

\* get_deployed_functions: the sorted, duplicate-free list of the stack's
\* Lambda functions
get_deployed_functions(n) == [k \in 1..n |-> k]

\* a pool fed one future per (function, memory size) instead
RECURSIVE TasksPerTestConfig(_, _)
TasksPerTestConfig(fns, cfg) ==
    IF fns = <<>> THEN <<>>
    ELSE [k \in 1..Len(get_memory_configs_for_workload(WorkloadType(Head(fns)), cfg))
             |-> Head(fns)]
         \o TasksPerTestConfig(Tail(fns), cfg)

\* run_benchmark, the futures submitted: one per discovered function
TasksToSubmit(fns, cfg) == fns

RECURSIVE TotalTests(_, _)
TotalTests(fns, cfg) ==
    IF fns = <<>> THEN 0
    ELSE Len(get_memory_configs_for_workload(WorkloadType(Head(fns)), cfg))
         + TotalTests(Tail(fns), cfg)

\* ------------------------------------------------------------------------
\* Initial state: nothing has run yet
\* ------------------------------------------------------------------------
Init ==
    /\ \E sc \in Scenarios :
          /\ config = sc.config
          /\ deployed = sc.deployed
          /\ live = [f \in 1..sc.deployed |-> sc.memory]
    /\ warmth = [f \in 1..deployed |-> [target |-> 0, invs |-> 0]]
    /\ testRun = NoTestRun
    /\ samples = {}
    /\ aggregates = {}
    /\ mpc = "start"
    /\ functions = <<>>
    /\ tasks = <<>>
    /\ yielded = {}
    /\ completed = 0
    /\ failed = 0
    /\ aborted = FALSE
    /\ interrupted = FALSE
    /\ util = UtilIdle

\* ------------------------------------------------------------------------
\* Main thread: run_benchmark
\* ------------------------------------------------------------------------
\* functions = get_deployed_functions(name_filter)
Discover ==
    /\ mpc = "start"
    /\ functions' = get_deployed_functions(deployed)
    /\ mpc' = "create"
    /\ UNCHANGED <<inputVars, live, warmth, storeVars, tasks, yielded,
                   completed, failed, aborted, interrupted, testRun>>

\* create_test_run_item(...) returns
CreateTestRun ==
    /\ mpc = "create"
    /\ testRun' = create_test_run_item(ModeOf(config), TotalTests(functions, config),
                                       config.cold_starts_per_config,
                                       config.warm_starts_per_config)
    /\ mpc' = "submit"
    /\ UNCHANGED <<inputVars, live, warmth, storeVars, functions, tasks, yielded,
                   completed, failed, aborted, interrupted>>

\* create_test_run_item raises (put_item fails): run_benchmark propagates it
CreateTestRunRaises ==
    /\ mpc = "create"
    /\ mpc' = "crashed"
    /\ UNCHANGED <<inputVars, live, warmth, storeVars, functions, tasks, yielded,
                   completed, failed, aborted, interrupted, testRun>>

\* executor.submit(benchmark_function_all_memory, func, ...) for the next
\* function; after the last one the main thread enters as_completed
Submit ==
    /\ mpc = "submit"
    /\ LET todo == TasksToSubmit(functions, config) IN
        IF Len(tasks) < Len(todo)
        THEN /\ tasks' = Append(tasks, NewTask(todo[Len(tasks) + 1]))
             /\ mpc' = "submit"
        ELSE /\ tasks' = tasks
             /\ mpc' = "collect"
    /\ UNCHANGED <<inputVars, live, warmth, storeVars, functions, yielded,
                   completed, failed, aborted, interrupted, testRun>>

\* a collection that sets the counters to the counts of the future yielded
CollectResultsLosesCounts(t) ==
    /\ mpc = "collect"
    /\ t \in TaskIds \ yielded
    /\ tasks[t].pc = "done"
    /\ yielded' = yielded \cup {t}
    /\ completed' = CountSuccess(tasks[t].results)
    /\ failed' = CountFailure(tasks[t].results)
    /\ UNCHANGED <<inputVars, live, warmth, storeVars, functions, tasks, mpc,
                   aborted, interrupted, testRun>>

\* as_completed yields future t, future.result() returns its results
CollectResults(t) ==
    /\ mpc = "collect"
    /\ t \in TaskIds \ yielded
    /\ tasks[t].pc = "done"
    /\ yielded' = yielded \cup {t}
    /\ completed' = completed + CountSuccess(tasks[t].results)
    /\ failed' = failed + CountFailure(tasks[t].results)
    /\ UNCHANGED <<inputVars, live, warmth, storeVars, functions, tasks, mpc,
                   aborted, interrupted, testRun>>

\* a collection that counts a future that raised as one failed configuration
CollectExceptionCountsOne(t) ==
    /\ mpc = "collect"
    /\ t \in TaskIds \ yielded
    /\ tasks[t].pc = "raised"
    /\ yielded' = yielded \cup {t}
    /\ failed' = failed + 1
    /\ UNCHANGED <<inputVars, live, warmth, storeVars, functions, tasks, mpc,
                   completed, aborted, interrupted, testRun>>

\* as_completed yields future t, future.result() raises
CollectException(t) ==
    /\ mpc = "collect"
    /\ t \in TaskIds \ yielded
    /\ tasks[t].pc = "raised"
    /\ yielded' = yielded \cup {t}
    /\ failed' = failed
          + Len(get_memory_configs_for_workload(WorkloadType(tasks[t].func), config))
    /\ UNCHANGED <<inputVars, live, warmth, storeVars, functions, tasks, mpc,
                   completed, aborted, interrupted, testRun>>

\* as_completed is exhausted; the with block's shutdown(wait=True) returns at
\* once because every future is finished
ExitPool ==
    /\ mpc = "collect"
    /\ yielded = TaskIds
    /\ mpc' = "finalize"
    /\ UNCHANGED <<inputVars, live, warmth, storeVars, functions, tasks, yielded,
                   completed, failed, aborted, interrupted, testRun>>

\* KeyboardInterrupt inside the with block: it leaves the block through
\* ThreadPoolExecutor.__exit__, i.e. shutdown(wait=True)
Interrupt ==
    /\ mpc \in {"submit", "collect"}
    /\ interrupted' = TRUE
    /\ mpc' = "shutdown"
    /\ UNCHANGED <<inputVars, live, warmth, storeVars, functions, tasks, yielded,
                   completed, failed, aborted, testRun>>

\* shutdown(wait=True) has joined every worker thread: the KeyboardInterrupt
\* reaches the except clause
ShutdownJoined ==
    /\ mpc = "shutdown"
    /\ \A t \in TaskIds : Finished(tasks[t])
    /\ aborted' = TRUE
    /\ mpc' = "finalize"
    /\ UNCHANGED <<inputVars, live, warmth, storeVars, functions, tasks, yielded,
                   completed, failed, interrupted, testRun>>

\* a second KeyboardInterrupt while shutdown(wait=True) is joining: it
\* leaves __exit__ and reaches the except clause with workers still running
InterruptJoin ==
    /\ mpc = "shutdown"
    /\ \E t \in TaskIds : ~Finished(tasks[t])
    /\ aborted' = TRUE
    /\ mpc' = "finalize"
    /\ UNCHANGED <<inputVars, live, warmth, storeVars, functions, tasks, yielded,
                   completed, failed, interrupted, testRun>>

\* KeyboardInterrupt outside the try statement: nothing catches it
InterruptOutside ==
    /\ mpc \in {"start", "create", "finalize"}
    /\ interrupted' = TRUE
    /\ mpc' = "crashed"
    /\ UNCHANGED <<inputVars, live, warmth, storeVars, functions, tasks, yielded,
                   completed, failed, aborted, testRun>>

\* a finalisation that reports a run with failed configurations as failed
FinalStatusFailedOnFailures(item, is_aborted, n_failed) ==
    IF is_aborted
    THEN update_test_run_status(item, "failed", n_failed, <<"aborted by user">>)
    ELSE IF n_failed = 0
    THEN update_test_run_status(item, "completed", 0, <<>>)
    ELSE update_test_run_status(item, "failed", n_failed,
             <<n_failed, " configuration(s) failed during benchmark execution">>)

\* "Updating test run status..."
FinalStatus(item, is_aborted, n_failed) ==
    IF is_aborted
    THEN update_test_run_status(item, "failed", n_failed, <<"aborted by user">>)
    ELSE IF n_failed = 0
    THEN update_test_run_status(item, "completed", 0, <<>>)
    ELSE update_test_run_status(item, "completed", n_failed,
             <<n_failed, " configuration(s) failed during benchmark execution">>)

Finalize ==
    /\ mpc = "finalize"
    /\ testRun' = FinalStatus(testRun, aborted, failed)
    /\ mpc' = "done"
    /\ UNCHANGED <<inputVars, live, warmth, storeVars, functions, tasks, yielded,
                   completed, failed, aborted, interrupted>>

\* update_test_run_status raises (update_item fails): nothing catches it
FinalizeRaises ==
    /\ mpc = "finalize"
    /\ mpc' = "crashed"
    /\ UNCHANGED <<inputVars, live, warmth, storeVars, functions, tasks, yielded,
                   completed, failed, aborted, interrupted, testRun>>

\* ------------------------------------------------------------------------
\* Worker threads: benchmark_function_all_memory and what it calls
\* ------------------------------------------------------------------------
\* locals of the retry loop and of force_cold_start, reset on entry
ClearCalls(tk) ==
    [tk EXCEPT !.attempt = 0, !.waits = <<>>, !.fault = None,
               !.error_msg = None, !.trace = <<>>, !.current_memory = 0]

\* entry of force_cold_start: get_function_configuration is called
BeginFcs(tk) == [ClearCalls(tk) EXCEPT !.pc = "fcs_get"]

\* entry of invoke_function_with_retry: attempt 0 calls lambda_client.invoke
BeginInvoke(tk) == [ClearCalls(tk) EXCEPT !.pc = "invoke"]

\* entry of write_aggregate
BeginAggregate(tk) == [ClearCalls(tk) EXCEPT !.pc = "agg"]

\* a cold loop that leaves for the aggregate one sample early
ColdLoopAggregatesEarly(tk, cfg, n) ==
    IF n < cfg.cold_starts_per_config - 1
    THEN BeginInvoke([tk EXCEPT !.i = n])
    ELSE BeginAggregate(tk)

\* head of "for i in range(config.cold_starts_per_config)" with next index n
ColdLoop(tk, cfg, n) ==
    IF n < cfg.cold_starts_per_config
    THEN BeginInvoke([tk EXCEPT !.i = n])
    ELSE BeginAggregate(tk)

\* a warm loop that makes one invocation less
WarmLoopOneShort(tk, cfg, n) ==
    IF n < cfg.warm_starts_per_config - 1
    THEN BeginInvoke([tk EXCEPT !.i = n])
    ELSE BeginAggregate(tk)

\* head of "for i in range(config.warm_starts_per_config)" with next index n
WarmLoop(tk, cfg, n) ==
    IF n < cfg.warm_starts_per_config
    THEN BeginInvoke([tk EXCEPT !.i = n])
    ELSE BeginAggregate(tk)

\* a cold loop that never re-runs the controller
AfterColdStoreNoController(tk, cfg) == ColdLoop(tk, cfg, tk.i + 1)

\* a cold loop that re-runs the controller after every cold sample
AfterColdStoreAlwaysController(tk, cfg) == BeginFcs(tk)

\* benchmark_function_single_memory, after store_result of cold sample i:
\* "if i < config.cold_starts_per_config - 1: force_cold_start(...)"
AfterColdStore(tk, cfg) ==
    IF tk.i < cfg.cold_starts_per_config - 1
    THEN BeginFcs(tk)
    ELSE ColdLoop(tk, cfg, tk.i + 1)

\* benchmark_function_single_memory returns its tuple r to
\* benchmark_function_all_memory, which appends it and goes on
ConfigReturn(tk, r) ==
    [tk EXCEPT !.results = Append(@, r), !.mi = @ + 1, !.pc = "loop",
               !.phase = None, !.i = 0, !.memory_mb = 0,
               !.cold_samples = <<>>, !.warm_samples = <<>>]

\* no except clause: the exception leaves the task
OnExceptionPropagate(tk, e) == [tk EXCEPT !.error_msg = e, !.pc = "raised"]

\* benchmark_function_single_memory, "except Exception as e": the tuple
\* returned is (function_name, memory_mb, False, error_msg); error_msg, which
\* run_benchmark only unpacks, is kept beside the results
OnException(tk, e) ==
    ConfigReturn([tk EXCEPT !.error_msg = e],
                 [memory_mb |-> tk.memory_mb, success |-> FALSE])

\* a temporary value that adds the delta at the maximum too, and is clamped
TempMemoryNoDecrement(memory_mb) ==
    Max(LAMBDA_MEMORY_MIN_MB,
        Min(LAMBDA_MEMORY_MAX_MB, memory_mb + LAMBDA_MEMORY_TOGGLE_MB))

\* a temporary value that always adds the delta and is not clamped
TempMemoryUnclamped(memory_mb) == memory_mb + LAMBDA_MEMORY_TOGGLE_MB

\* force_cold_start: the temporary memory value
TempMemory(memory_mb) ==
    LET temp_memory == IF memory_mb >= LAMBDA_MEMORY_MAX_MB
                       THEN memory_mb - LAMBDA_MEMORY_TOGGLE_MB
                       ELSE memory_mb + LAMBDA_MEMORY_TOGGLE_MB
    IN Max(LAMBDA_MEMORY_MIN_MB, Min(LAMBDA_MEMORY_MAX_MB, temp_memory))

\* a controller that never toggles
NeverToggle(current_memory, memory_mb) == FALSE

\* force_cold_start: "if current_memory == memory_mb"
NeedsToggle(current_memory, memory_mb) == current_memory = memory_mb

\* a retry loop that also sleeps after its last attempt
RetryDecisionOffByOne(error_code, attempt, max_attempts) ==
    /\ error_code \in TransientCodes
    /\ attempt < max_attempts

\* a retry loop that retries every ClientError
RetryDecisionAnyError(error_code, attempt, max_attempts) ==
    attempt < max_attempts - 1

\* invoke_function_with_retry, "except ClientError as e": TRUE when the
\* loop sleeps and tries again, FALSE when it re-raises
RetryDecision(error_code, attempt, max_attempts) ==
    /\ error_code \in TransientCodes
    /\ attempt < max_attempts - 1

\* invoke_function_with_retry: the backoff slept after attempt `attempt`
Backoff(attempt) == LAMBDA_INVOKE_BACKOFF_BASE_SECONDS * Pow2(attempt)

\* the exception that leaves invoke_function_with_retry ("raise")
Reraise(e) == e

\* what each raising call raises
ErrorOf(pc) ==
    CASE pc = "fcs_get" -> "GetFunctionConfigurationError"
      [] pc \in {"fcs_upd_temp", "fcs_upd_target"} -> "ResourceConflictException"
      [] pc \in {"fcs_wait_temp", "fcs_wait_target"} -> "WaiterError"
      [] pc \in {"store", "agg"} -> "PutItemError"

RaisingCalls ==
    {"fcs_get", "fcs_upd_temp", "fcs_upd_target", "fcs_wait_temp",
     "fcs_wait_target", "store", "agg"}

workerUnchanged == <<inputVars, mainVars>>

\* a pool that starts every queued work item at once
StartTaskUnbounded(t) ==
    /\ t \in TaskIds
    /\ tasks[t].pc = "queued"
    /\ tasks' = [tasks EXCEPT ![t] =
          [@ EXCEPT !.pc = "loop", !.mi = 1,
                    !.mems = get_memory_configs_for_workload(
                                 WorkloadType(tasks[t].func), config)]]
    /\ UNCHANGED <<workerUnchanged, live, warmth, storeVars>>

\* a worker thread takes the oldest queued work item and enters
\* benchmark_function_all_memory
StartTask(t) ==
    /\ t \in TaskIds
    /\ tasks[t].pc = "queued"
    /\ \A u \in 1..(t - 1) : tasks[u].pc # "queued"
    /\ Cardinality({u \in TaskIds : Running(tasks[u])}) < config.max_workers
    /\ tasks' = [tasks EXCEPT ![t] =
          [@ EXCEPT !.pc = "loop", !.mi = 1,
                    !.mems = get_memory_configs_for_workload(
                                 WorkloadType(tasks[t].func), config)]]
    /\ UNCHANGED <<workerUnchanged, live, warmth, storeVars>>

\* "for memory_mb in memory_configs": the next size enters
\* benchmark_function_single_memory, which calls force_cold_start; after the
\* last size the task returns its results
LoopHead(t) ==
    /\ t \in TaskIds
    /\ tasks[t].pc = "loop"
    /\ LET tk == tasks[t] IN
        tasks' = [tasks EXCEPT ![t] =
            IF tk.mi <= Len(tk.mems)
            THEN BeginFcs([tk EXCEPT !.memory_mb = tk.mems[tk.mi],
                                     !.phase = "cold", !.i = 0])
            ELSE [ClearCalls(tk) EXCEPT !.pc = "done"]]
    /\ UNCHANGED <<workerUnchanged, live, warmth, storeVars>>

\* an exception leaves benchmark_function_all_memory (outside the try of
\* benchmark_function_single_memory): the future holds the exception
TaskRaises(t) ==
    /\ t \in TaskIds
    /\ tasks[t].pc = "loop"
    /\ tasks' = [tasks EXCEPT ![t] = [ClearCalls(@) EXCEPT !.pc = "raised"]]
    /\ UNCHANGED <<workerUnchanged, live, warmth, storeVars>>

\* force_cold_start: get_function_configuration returns
FcsGet(t) ==
    /\ t \in TaskIds
    /\ tasks[t].pc = "fcs_get"
    /\ LET tk == tasks[t]
           current_memory == live[tk.func]
       IN tasks' = [tasks EXCEPT ![t] =
            [tk EXCEPT !.current_memory = current_memory,
                       !.pc = IF NeedsToggle(current_memory, tk.memory_mb)
                              THEN "fcs_upd_temp" ELSE "fcs_upd_target"]]
    /\ UNCHANGED <<workerUnchanged, live, warmth, storeVars>>

\* force_cold_start: update_function_configuration(MemorySize=...) returns
FcsUpdate(t) ==
    /\ t \in TaskIds
    /\ tasks[t].pc \in {"fcs_upd_temp", "fcs_upd_target"}
    /\ LET tk == tasks[t]
           temp == tk.pc = "fcs_upd_temp"
           value == IF temp THEN TempMemory(tk.memory_mb) ELSE tk.memory_mb
       IN /\ live' = [live EXCEPT ![tk.func] = value]
          /\ tasks' = [tasks EXCEPT ![t] =
                [tk EXCEPT !.trace = Append(@, <<"update", value>>),
                           !.pc = IF temp THEN "fcs_wait_temp"
                                  ELSE "fcs_wait_target"]]
          /\ warmth' = [warmth EXCEPT ![tk.func].invs = 0]
    /\ UNCHANGED <<workerUnchanged, storeVars>>

\* force_cold_start: waiter.wait returns, the update is confirmed
FcsWait(t) ==
    /\ t \in TaskIds
    /\ tasks[t].pc \in {"fcs_wait_temp", "fcs_wait_target"}
    /\ LET tk == tasks[t] IN
        tasks' = [tasks EXCEPT ![t] =
            [tk EXCEPT !.trace = Append(@, <<"confirmed", live[tk.func]>>),
                       !.pc = IF tk.pc = "fcs_wait_temp" THEN "fcs_sleep_temp"
                              ELSE "fcs_sleep_target"]]
    /\ UNCHANGED <<workerUnchanged, live, warmth, storeVars>>

\* force_cold_start: time.sleep(COLD_START_STABILIZATION_DELAY_SECONDS)
\* after the temporary value returns
FcsSleepTemp(t) ==
    /\ t \in TaskIds
    /\ tasks[t].pc = "fcs_sleep_temp"
    /\ tasks' = [tasks EXCEPT ![t] =
          [@ EXCEPT !.trace = Append(@, <<"sleep", COLD_START_STABILIZATION_DELAY_MS>>),
                    !.pc = "fcs_upd_target"]]
    /\ UNCHANGED <<workerUnchanged, live, warmth, storeVars>>

\* force_cold_start: the last time.sleep returns and force_cold_start
\* returns to benchmark_function_single_memory, which goes to the head of
\* its cold loop
FcsReturn(t) ==
    /\ t \in TaskIds
    /\ tasks[t].pc = "fcs_sleep_target"
    /\ LET tk == tasks[t]
           slept == [tk EXCEPT !.trace =
                        Append(@, <<"sleep", COLD_START_STABILIZATION_DELAY_MS>>)]
       IN /\ tasks' = [tasks EXCEPT ![t] =
                [ColdLoop(slept, config, Len(tk.cold_samples))
                    EXCEPT !.trace = slept.trace,
                           !.current_memory = tk.current_memory]]
          /\ warmth' = [warmth EXCEPT ![tk.func] =
                            [target |-> tk.memory_mb, invs |-> 0]]
    /\ UNCHANGED <<workerUnchanged, live, storeVars>>

\* the response of lambda_client.invoke: the handler's payload and the log
\* tail with the REPORT line; the platform reports one duration for a handler
\* that succeeded and another for one that returned a failure
LambdaResponse(payload_success) ==
    [StatusCode |-> 200,
     Payload |-> [success |-> payload_success],
     LogResult |-> ReportLine(<<"a", "1", "-", "7">>,
                              {"Duration", "Billed Duration", "Memory Size",
                               "Max Memory Used"},
                              FormatInt(IF payload_success THEN 10 ELSE 20)
                                 \o <<".", "0", "0">>)]

\* invoke_function_with_retry: lambda_client.invoke returns a response, and
\* invoke_function returns the sample, which the loop appends
InvokeReturns(t) ==
    /\ t \in TaskIds
    /\ tasks[t].pc = "invoke"
    /\ \E payload_success \in BOOLEAN :
        LET tk == tasks[t]
            result == invoke_function(LambdaResponse(payload_success))
        IN tasks' = [tasks EXCEPT ![t] =
              IF tk.phase = "cold"
              THEN [tk EXCEPT !.cold_samples = Append(@, result), !.pc = "store"]
              ELSE [tk EXCEPT !.warm_samples = Append(@, result), !.pc = "store"]]
    /\ warmth' = [warmth EXCEPT ![tasks[t].func].invs = @ + 1]
    /\ UNCHANGED <<workerUnchanged, live, storeVars>>

\* invoke_function_with_retry: lambda_client.invoke raises e; the loop
\* either sleeps the backoff or lets the exception go
InvokeFails(t) ==
    /\ t \in TaskIds
    /\ tasks[t].pc = "invoke"
    /\ \E e \in InvokeErrorCodes \cup {NonClientError} :
        LET tk == tasks[t] IN
        tasks' = [tasks EXCEPT ![t] =
            IF e \in InvokeErrorCodes
               /\ RetryDecision(e, tk.attempt, LAMBDA_INVOKE_MAX_RETRIES)
            THEN [tk EXCEPT !.pc = "backoff", !.fault = e,
                            !.waits = Append(@, Backoff(tk.attempt))]
            ELSE OnException([tk EXCEPT !.fault = e], Reraise(e))]
    /\ UNCHANGED <<workerUnchanged, live, warmth, storeVars>>

\* invoke_function_with_retry: time.sleep(backoff) returns, next attempt
BackoffDone(t) ==
    /\ t \in TaskIds
    /\ tasks[t].pc = "backoff"
    /\ tasks' = [tasks EXCEPT ![t] = [@ EXCEPT !.attempt = @ + 1, !.pc = "invoke"]]
    /\ UNCHANGED <<workerUnchanged, live, warmth, storeVars>>

\* store_result returns: the sample is in the table
StoreResult(t) ==
    /\ t \in TaskIds
    /\ tasks[t].pc = "store"
    /\ LET tk == tasks[t]
           cold == tk.phase = "cold"
           smpls == IF cold THEN tk.cold_samples ELSE tk.warm_samples
           item == store_result(tk.func, tk.memory_mb, cold, smpls[Len(smpls)],
                                tk.i + 1)
       IN /\ samples' = PutSample(samples, item)
          /\ tasks' = [tasks EXCEPT ![t] =
                IF cold THEN AfterColdStore(tk, config)
                ELSE WarmLoop(tk, config, tk.i + 1)]
    /\ UNCHANGED <<workerUnchanged, live, warmth, aggregates>>

\* write_aggregate returns: after the cold aggregate the warm loop starts,
\* after the warm aggregate benchmark_function_single_memory returns success
WriteAggregate(t) ==
    /\ t \in TaskIds
    /\ tasks[t].pc = "agg"
    /\ LET tk == tasks[t]
           cold == tk.phase = "cold"
           item == write_aggregate(tk.func, tk.memory_mb, tk.phase,
                                   IF cold THEN tk.cold_samples ELSE tk.warm_samples)
       IN /\ aggregates' = PutAggregate(aggregates, item)
          /\ tasks' = [tasks EXCEPT ![t] =
                IF cold THEN WarmLoop([tk EXCEPT !.phase = "warm"], config, 0)
                ELSE ConfigReturn(tk, [memory_mb |-> tk.memory_mb,
                                       success |-> TRUE])]
    /\ UNCHANGED <<workerUnchanged, live, warmth, samples>>

\* a write_aggregate that raises after its item has reached the table
CallRaisesAfterWrite(t) ==
    /\ t \in TaskIds
    /\ tasks[t].pc \in RaisingCalls
    /\ tasks' = [tasks EXCEPT ![t] =
          OnException([@ EXCEPT !.fault = ErrorOf(tasks[t].pc)],
                      ErrorOf(tasks[t].pc))]
    /\ aggregates' =
          IF tasks[t].pc = "agg"
          THEN PutAggregate(aggregates,
                   write_aggregate(tasks[t].func, tasks[t].memory_mb, tasks[t].phase,
                                   IF tasks[t].phase = "cold"
                                   THEN tasks[t].cold_samples
                                   ELSE tasks[t].warm_samples))
          ELSE aggregates
    /\ UNCHANGED <<workerUnchanged, live, warmth, samples>>

\* a platform or table call of benchmark_function_single_memory other than
\* invoke raises
CallRaises(t) ==
    /\ t \in TaskIds
    /\ tasks[t].pc \in RaisingCalls
    /\ tasks' = [tasks EXCEPT ![t] =
          OnException([@ EXCEPT !.fault = ErrorOf(tasks[t].pc)],
                      ErrorOf(tasks[t].pc))]
    /\ UNCHANGED <<workerUnchanged, live, warmth, storeVars>>

\* ------------------------------------------------------------------------
\* The run
\* ------------------------------------------------------------------------
Next ==
    \/ Discover
    \/ CreateTestRun
    \/ CreateTestRunRaises
    \/ Submit
    \/ \E t \in TaskIds : CollectResults(t)
    \/ \E t \in TaskIds : CollectException(t)
    \/ ExitPool
    \/ Interrupt
    \/ ShutdownJoined
    \/ InterruptJoin
    \/ InterruptOutside
    \/ Finalize
    \/ FinalizeRaises
    \/ \E t \in TaskIds : StartTask(t)
    \/ \E t \in TaskIds : LoopHead(t)
    \/ \E t \in TaskIds : TaskRaises(t)
    \/ \E t \in TaskIds : FcsGet(t)
    \/ \E t \in TaskIds : FcsUpdate(t)
    \/ \E t \in TaskIds : FcsWait(t)
    \/ \E t \in TaskIds : FcsSleepTemp(t)
    \/ \E t \in TaskIds : FcsReturn(t)
    \/ \E t \in TaskIds : InvokeReturns(t)
    \/ \E t \in TaskIds : InvokeFails(t)
    \/ \E t \in TaskIds : BackoffDone(t)
    \/ \E t \in TaskIds : StoreResult(t)
    \/ \E t \in TaskIds : WriteAggregate(t)
    \/ \E t \in TaskIds : CallRaises(t)

Spec == Init /\ [][Next]_vars

\* ------------------------------------------------------------------------
\* force_cold_start on its own: one call with any legal target
\* ------------------------------------------------------------------------
\* a run restricted to the one size memory_mb, --workers 1
ColdConfig(memory_mb) ==
    [cold_starts_per_config |-> 1, warm_starts_per_config |-> 0,
     memory_configs_to_test |-> {memory_mb}, max_workers |-> 1]

\* the task of function 1 as it enters force_cold_start(name, memory_mb)
ColdTask(memory_mb) ==
    BeginFcs([NewTask(1) EXCEPT !.mems = <<memory_mb>>, !.mi = 1,
                                !.memory_mb = memory_mb, !.phase = "cold"])

InitCold ==
    /\ \E memory_mb \in LAMBDA_MEMORY_MIN_MB..LAMBDA_MEMORY_MAX_MB :
          /\ config = ColdConfig(memory_mb)
          /\ tasks = <<ColdTask(memory_mb)>>
          /\ \E current \in {memory_mb, LAMBDA_MEMORY_MIN_MB, LAMBDA_MEMORY_MAX_MB} :
                live = [f \in {1} |-> current]
    /\ deployed = 1
    /\ warmth = [f \in {1} |-> [target |-> 0, invs |-> 0]]
    /\ testRun = create_test_run_item(ModeOf(config), 1, 1, 0)
    /\ samples = {}
    /\ aggregates = {}
    /\ mpc = "collect"
    /\ functions = get_deployed_functions(1)
    /\ yielded = {}
    /\ completed = 0
    /\ failed = 0
    /\ aborted = FALSE
    /\ interrupted = FALSE
    /\ util = UtilIdle

NextCold ==
    \/ \E t \in TaskIds : FcsGet(t)
    \/ \E t \in TaskIds : FcsUpdate(t)
    \/ \E t \in TaskIds : FcsWait(t)
    \/ \E t \in TaskIds : FcsSleepTemp(t)
    \/ \E t \in TaskIds : FcsReturn(t)
    \/ \E t \in TaskIds : CallRaises(t)

SpecCold == InitCold /\ [][NextCold]_vars

\* ------------------------------------------------------------------------
\* benchmark_function_single_memory on its own: one configuration of one
\* function, with any number of cold and of warm samples, none included
\* ------------------------------------------------------------------------
\* a run of cold cold and warm warm samples at 128 MB, --workers 1
SingleConfig(cold, warm) ==
    [cold_starts_per_config |-> cold, warm_starts_per_config |-> warm,
     memory_configs_to_test |-> {LAMBDA_MEMORY_MIN_MB}, max_workers |-> 1]

\* the function holds the target size or another one when the task starts
InitSingle ==
    /\ \E cold \in 0..MaxPerConfig, warm \in 0..MaxPerConfig :
          config = SingleConfig(cold, warm)
    /\ tasks = << [NewTask(1) EXCEPT !.pc = "loop", !.mi = 1,
                                     !.mems = <<LAMBDA_MEMORY_MIN_MB>>] >>
    /\ \E current \in {LAMBDA_MEMORY_MIN_MB, LAMBDA_MEMORY_MAX_MB} :
          live = [f \in {1} |-> current]
    /\ deployed = 1
    /\ warmth = [f \in {1} |-> [target |-> 0, invs |-> 0]]
    /\ testRun = create_test_run_item(ModeOf(config), 1, 1, 0)
    /\ samples = {}
    /\ aggregates = {}
    /\ mpc = "collect"
    /\ functions = get_deployed_functions(1)
    /\ yielded = {}
    /\ completed = 0
    /\ failed = 0
    /\ aborted = FALSE
    /\ interrupted = FALSE
    /\ util = UtilIdle

NextSingle ==
    \/ \E t \in TaskIds : LoopHead(t)
    \/ \E t \in TaskIds : TaskRaises(t)
    \/ \E t \in TaskIds : FcsGet(t)
    \/ \E t \in TaskIds : FcsUpdate(t)
    \/ \E t \in TaskIds : FcsWait(t)
    \/ \E t \in TaskIds : FcsSleepTemp(t)
    \/ \E t \in TaskIds : FcsReturn(t)
    \/ \E t \in TaskIds : InvokeReturns(t)
    \/ \E t \in TaskIds : InvokeFails(t)
    \/ \E t \in TaskIds : BackoffDone(t)
    \/ \E t \in TaskIds : StoreResult(t)
    \/ \E t \in TaskIds : WriteAggregate(t)
    \/ \E t \in TaskIds : CallRaises(t)

SpecSingle == InitSingle /\ [][NextSingle]_vars

\* ------------------------------------------------------------------------
\* The entry point up to the run record: the command line selects a preset,
\* --mem and --workers change it, run_benchmark creates the test-run item
\* ------------------------------------------------------------------------
\* args: the preset flag given (one of --test, --balanced, --production is
\* required), the sizes of --mem (none when absent) and --workers
InitMode ==
    /\ \E preset \in {"test", "balanced", "production"},
          memory_sizes \in SUBSET {LAMBDA_MEMORY_MIN_MB, 1769},
          max_workers \in {0, 1, 12} :
          util = [pc |-> "main",
                  args |-> [preset |-> preset, memory_sizes |-> memory_sizes,
                            max_workers |-> max_workers]]
    /\ deployed \in 1..NumSubjects
    /\ config = TEST_CONFIG
    /\ live = [f \in 1..deployed |-> 1769]
    /\ warmth = [f \in 1..deployed |-> [target |-> 0, invs |-> 0]]
    /\ testRun = NoTestRun
    /\ samples = {}
    /\ aggregates = {}
    /\ mpc = "main"
    /\ functions = <<>>
    /\ tasks = <<>>
    /\ yielded = {}
    /\ completed = 0
    /\ failed = 0
    /\ aborted = FALSE
    /\ interrupted = FALSE

\* "if args.production: ... elif args.balanced: ... else: ...", then
\* "if args.memory_sizes:" and "if args.max_workers:", then run_benchmark is
\* called with the config
Main ==
    /\ mpc = "main"
    /\ LET args == util.args
           preset == CASE args.preset = "production" -> PRODUCTION_CONFIG
                       [] args.preset = "balanced" -> BALANCED_CONFIG
                       [] OTHER -> TEST_CONFIG
       IN config' = [preset EXCEPT
                        !.memory_configs_to_test =
                            IF args.memory_sizes # {} THEN args.memory_sizes ELSE @,
                        !.max_workers =
                            IF args.max_workers # 0 THEN args.max_workers ELSE @]
    /\ util' = [util EXCEPT !.pc = "run_benchmark"]
    /\ mpc' = "start"
    /\ UNCHANGED <<deployed, live, warmth, storeVars, functions, tasks, yielded,
                   completed, failed, aborted, interrupted, testRun>>

NextMode ==
    \/ Main
    \/ Discover
    \/ CreateTestRun
    \/ CreateTestRunRaises

SpecMode == InitMode /\ [][NextMode]_vars

\* ------------------------------------------------------------------------
\* The identifier utilities on their own: make_config_id is given a tuple
\* and parse_config_id its result, or parse_config_id is given an identifier
\* that no make_config_id built
\* ------------------------------------------------------------------------
InitId ==
    /\ \/ \E tuple \in ConfigTuples :
             util = [UtilIdle EXCEPT !.pc = "make", !.tuple = tuple]
       \/ \E config_id \in IdStrings :
             util = [UtilIdle EXCEPT !.pc = "parse", !.config_id = config_id]
    /\ config = PoolConfig(1)
    /\ deployed = 0
    /\ live = <<>>
    /\ warmth = <<>>
    /\ testRun = NoTestRun
    /\ samples = {}
    /\ aggregates = {}
    /\ mpc = "start"
    /\ functions = <<>>
    /\ tasks = <<>>
    /\ yielded = {}
    /\ completed = 0
    /\ failed = 0
    /\ aborted = FALSE
    /\ interrupted = FALSE

utilUnchanged == <<config, deployed, live, warmth, storeVars, tasks, mainVars>>

\* make_config_id(function_info, memory_mb) returns
MakeConfigId ==
    /\ util.pc = "make"
    /\ util' = [util EXCEPT !.pc = "parse",
                            !.config_id = make_config_id(util.tuple,
                                                         util.tuple.memorySizeMB)]
    /\ UNCHANGED utilUnchanged

\* parse_config_id(config_id) returns or raises
ParseConfigId ==
    /\ util.pc = "parse"
    /\ util' = [util EXCEPT !.pc = "done",
                            !.parsed = parse_config_id(util.config_id)]
    /\ UNCHANGED utilUnchanged

NextId == MakeConfigId \/ ParseConfigId

SpecId == InitId /\ [][NextId]_vars

\* ------------------------------------------------------------------------
\* The statistics and the report functions, called with every input of a
\* bounded set
\* ------------------------------------------------------------------------
Percents == {0, 25, 50, 75, 90, 95, 99, 100}

\* the log tails given: nothing, lines without a REPORT line, the REPORT
\* line alone, and the REPORT line between other lines; the REPORT line
\* carries any of the four fields read, and the Memory Size
ReportFields == {"Duration", "Billed Duration", "Max Memory Used", "Init Duration"}
LogText(kind, fields) ==
    LET request_id == <<"a", "1", "-", "7">>
        report == ReportLine(request_id, fields \cup {"Memory Size"},
                             <<"1", "2", ".", "3", "4">>)
        before == << <<"START">>, <<"RequestId:">>, request_id, <<"\n">>,
                     <<"END">>, <<"RequestId:">>, request_id, <<"\n">> >>
        after == << <<"\n">>, <<"XRAY">>, <<"TraceId:">>, <<"1", "-", "5">> >>
    IN CASE kind = "empty" -> <<>>
         [] kind = "no marker" -> before \o SubSeq(report, 4, Len(report))
         [] kind = "report" -> report
         [] kind = "report among lines" -> before \o report \o after

\* the lists given: at most MaxSamples values out of 10, 15, 20 and 30 ms, in
\* any order (ascending for percentile), and a list of five with an outlier
InitCalls ==
    /\ LET ValueLists == UNION {[1..n -> {1000, 1500, 2000, 3000}] : n \in 0..MaxSamples}
           LogKinds == {"empty", "no marker", "report", "report among lines"}
       IN \/ \E sorted_vals \in {v \in ValueLists : v = Sorted(v)}, p \in Percents :
                util = [pc |-> "percentile", values |-> sorted_vals, p |-> p,
                        remove_outliers |-> FALSE, result |-> <<>>]
          \/ \E values \in ValueLists, remove_outliers \in BOOLEAN :
                util = [pc |-> "calculate_statistics", values |-> values, p |-> 0,
                        remove_outliers |-> remove_outliers, result |-> <<>>]
          \/ util = [pc |-> "calculate_statistics",
                     values |-> <<1000, 2000, 3000, 100000, 1500>>, p |-> 0,
                     remove_outliers |-> TRUE, result |-> <<>>]
          \/ \E kind \in LogKinds, fields \in SUBSET ReportFields :
                util = [pc |-> "parse_cloudwatch_report", kind |-> kind,
                        fields |-> fields, log_result |-> LogText(kind, fields),
                        result |-> <<>>]
          \/ \E kind \in LogKinds \cup {"missing"}, fields \in SUBSET ReportFields,
                   payload \in {[success |-> TRUE], [success |-> FALSE],
                                [errorMessage |-> "boom"]},
                   status \in {200, 202}, function_error \in BOOLEAN,
                   is_cold_start \in BOOLEAN :
                util = [pc |-> "invoke_function", kind |-> kind, fields |-> fields,
                        response |->
                            [StatusCode |-> status, Payload |-> payload]
                            @@ (IF kind = "missing" THEN <<>>
                                ELSE "LogResult" :> LogText(kind, fields))
                            @@ (IF function_error
                                THEN "FunctionError" :> "Unhandled" ELSE <<>>),
                        is_cold_start |-> is_cold_start, result |-> <<>>]
    /\ config = PoolConfig(1)
    /\ deployed = 0
    /\ live = <<>>
    /\ warmth = <<>>
    /\ testRun = NoTestRun
    /\ samples = {}
    /\ aggregates = {}
    /\ mpc = "start"
    /\ functions = <<>>
    /\ tasks = <<>>
    /\ yielded = {}
    /\ completed = 0
    /\ failed = 0
    /\ aborted = FALSE
    /\ interrupted = FALSE

\* percentile(sorted_vals, p) returns
Percentile ==
    /\ util.pc = "percentile"
    /\ util' = [util EXCEPT !.pc = "percentile returned",
                            !.result = <<percentile(util.values, util.p)>>]
    /\ UNCHANGED utilUnchanged

\* calculate_statistics(values, remove_outliers) returns
CalculateStatistics ==
    /\ util.pc = "calculate_statistics"
    /\ util' = [util EXCEPT !.pc = "calculate_statistics returned",
                            !.result = calculate_statistics(util.values,
                                                            util.remove_outliers)]
    /\ UNCHANGED utilUnchanged

\* parse_cloudwatch_report(log_result) returns
ParseCloudwatchReport ==
    /\ util.pc = "parse_cloudwatch_report"
    /\ util' = [util EXCEPT !.pc = "parse_cloudwatch_report returned",
                            !.result = <<parse_cloudwatch_report(util.log_result)>>]
    /\ UNCHANGED utilUnchanged

\* benchmark_function_single_memory, one invocation of function 1 at 128 MB:
\* invoke_function returns the sample,
InvokeFunction ==
    /\ util.pc = "invoke_function"
    /\ util' = [util EXCEPT !.pc = "store_result",
                            !.result = <<invoke_function(util.response)>>]
    /\ UNCHANGED utilUnchanged

\* store_result writes it,
StoreOneResult ==
    /\ util.pc = "store_result"
    /\ samples' = PutSample(samples, store_result(1, 128, util.is_cold_start,
                                                   util.result[1], 1))
    /\ util' = [util EXCEPT !.pc = "write_aggregate"]
    /\ UNCHANGED <<config, deployed, live, warmth, aggregates, tasks, mainVars>>

\* and write_aggregate writes the aggregate of the one sample
WriteOneAggregate ==
    /\ util.pc = "write_aggregate"
    /\ aggregates' = PutAggregate(aggregates,
                          write_aggregate(1, 128,
                                          IF util.is_cold_start THEN "cold" ELSE "warm",
                                          util.result))
    /\ util' = [util EXCEPT !.pc = "write_aggregate returned"]
    /\ UNCHANGED <<config, deployed, live, warmth, samples, tasks, mainVars>>

NextCalls ==
    \/ Percentile
    \/ CalculateStatistics
    \/ ParseCloudwatchReport
    \/ InvokeFunction
    \/ StoreOneResult
    \/ WriteOneAggregate

SpecCalls == InitCalls /\ [][NextCalls]_vars

\* ------------------------------------------------------------------------
\* Properties
\* ------------------------------------------------------------------------
UpdateInFlight(tk) ==
    tk.pc \in {"fcs_upd_temp", "fcs_wait_temp", "fcs_upd_target", "fcs_wait_target"}
InvokeInFlight(tk) == tk.pc = "invoke"
InFcs(tk) ==
    tk.pc \in {"fcs_get", "fcs_upd_temp", "fcs_wait_temp", "fcs_sleep_temp",
               "fcs_upd_target", "fcs_wait_target", "fcs_sleep_target"}
InConfig(tk) == InFcs(tk) \/ tk.pc \in {"invoke", "backoff", "store", "agg"}

\* C1: one task per discovered subject.  No two futures are for the same
\* function, once submission is over every discovered function has its
\* future, and so two tasks never have a configuration update or an
\* invocation of the same function in flight at the same time.
C1_OneTaskPerSubject ==
    /\ \A t, u \in TaskIds : t # u => tasks[t].func # tasks[u].func
    /\ mpc \in {"collect", "finalize", "done"} /\ ~interrupted
          => {tasks[t].func : t \in TaskIds} = Range(functions)
    /\ \A t, u \in TaskIds :
          (t # u /\ tasks[t].func = tasks[u].func)
             => ~( (UpdateInFlight(tasks[t]) \/ InvokeInFlight(tasks[t]))
                   /\ (UpdateInFlight(tasks[u]) \/ InvokeInFlight(tasks[u])) )

\* two tasks at work at once, one updating and one invoking
C1_Witness ==
    \E t, u \in TaskIds :
        /\ t # u
        /\ UpdateInFlight(tasks[t])
        /\ InvokeInFlight(tasks[u])

\* C2: whenever a cold invocation is under way (any attempt of it), the
\* last thing that happened to the function is a completed force_cold_start
\* for the invocation's memory size: no invocation was answered since.
C2_ColdSamplesAreCold ==
    \A t \in TaskIds :
        (tasks[t].pc \in {"invoke", "backoff"} /\ tasks[t].phase = "cold")
           => warmth[tasks[t].func] = [target |-> tasks[t].memory_mb, invs |-> 0]

\* the second cold invocation of a configuration is under way
C2_Witness ==
    \E t \in TaskIds :
        /\ tasks[t].pc = "invoke"
        /\ tasks[t].phase = "cold"
        /\ tasks[t].i = 1
        /\ Len(tasks[t].cold_samples) = 1
        /\ warmth[tasks[t].func] = [target |-> tasks[t].memory_mb, invs |-> 0]

\* C3: every memory value force_cold_start has requested, and so the live
\* setting it leaves, is within the platform's legal range.
C3_RequestsInRange ==
    \A t \in TaskIds :
        /\ \A k \in 1..Len(tasks[t].trace) :
              tasks[t].trace[k][1] = "update"
                 => /\ tasks[t].trace[k][2] >= LAMBDA_MEMORY_MIN_MB
                    /\ tasks[t].trace[k][2] <= LAMBDA_MEMORY_MAX_MB
        /\ live[tasks[t].func] >= LAMBDA_MEMORY_MIN_MB
        /\ live[tasks[t].func] <= LAMBDA_MEMORY_MAX_MB

\* the target is the maximum and the temporary value was requested
C3_Witness ==
    \E t \in TaskIds :
        /\ tasks[t].memory_mb = LAMBDA_MEMORY_MAX_MB
        /\ Len(tasks[t].trace) >= 1
        /\ tasks[t].trace[1] = <<"update", LAMBDA_MEMORY_MAX_MB - LAMBDA_MEMORY_TOGGLE_MB>>

\* the events of one force_cold_start: with a toggle when the setting read
\* equals the target, without it otherwise
FcsEvents(toggled, temp, target) ==
    (IF toggled
     THEN << <<"update", temp>>, <<"confirmed", temp>>,
             <<"sleep", COLD_START_STABILIZATION_DELAY_MS>> >>
     ELSE <<>>)
    \o << <<"update", target>>, <<"confirmed", target>>,
          <<"sleep", COLD_START_STABILIZATION_DELAY_MS>> >>

\* number of events that have happened when the controller is at pc
FcsPosition(pc, toggled) ==
    LET base == IF toggled THEN 3 ELSE 0 IN
    CASE pc = "fcs_upd_temp" -> 0
      [] pc = "fcs_wait_temp" -> 1
      [] pc = "fcs_sleep_temp" -> 2
      [] pc = "fcs_upd_target" -> base
      [] pc = "fcs_wait_target" -> base + 1
      [] pc = "fcs_sleep_target" -> base + 2
      [] OTHER -> base + 3

\* C4: the toggle state machine.  With current the setting read at the
\* start: the temporary request (of a value other than the target) is made
\* exactly when current equals the target; each request is followed by its
\* confirmation and then the stabilization delay; the target is requested
\* last; on return the live setting is the target.
C4_ToggleStateMachine ==
    \A t \in TaskIds :
        LET tk == tasks[t]
            toggled == tk.current_memory = tk.memory_mb
            temp == IF Len(tk.trace) >= 1 THEN tk.trace[1][2] ELSE 0
            events == FcsEvents(toggled, temp, tk.memory_mb)
        IN (tk.pc \in {"fcs_upd_temp", "fcs_wait_temp", "fcs_sleep_temp",
                       "fcs_upd_target", "fcs_wait_target", "fcs_sleep_target",
                       "invoke"})
           => /\ tk.trace = SubSeq(events, 1, FcsPosition(tk.pc, toggled))
              /\ tk.pc \in {"fcs_upd_temp", "fcs_wait_temp", "fcs_sleep_temp"} => toggled
              /\ (toggled /\ Len(tk.trace) >= 1) => temp # tk.memory_mb
              /\ tk.pc = "invoke" => live[tk.func] = tk.memory_mb

\* force_cold_start has returned after a toggle
C4_Witness ==
    \E t \in TaskIds :
        /\ tasks[t].pc = "invoke"
        /\ tasks[t].current_memory = tasks[t].memory_mb
        /\ Len(tasks[t].trace) = 6
        /\ live[tasks[t].func] = tasks[t].memory_mb

NonTransientErrors == (InvokeErrorCodes \ TransientCodes) \cup {NonClientError}

\* C6: an error outside the transient class is never followed by a backoff
\* wait or another attempt: only transient errors are waited on, and a call
\* that such an error leaves has waited once per earlier attempt only, the
\* error leaving it unchanged.
C6_NonTransientPropagates ==
    \A t \in TaskIds :
        LET tk == tasks[t] IN
        /\ tk.pc = "backoff" => tk.fault \in TransientCodes
        /\ (tk.pc = "loop" /\ tk.fault \in NonTransientErrors) =>
              /\ Len(tk.waits) = tk.attempt
              /\ tk.error_msg = tk.fault

\* a non-transient error on the second attempt
C6_Witness ==
    \E t \in TaskIds :
        /\ tasks[t].pc = "loop"
        /\ tasks[t].fault = "ResourceNotFoundException"
        /\ tasks[t].attempt = 1
        /\ tasks[t].waits = <<1>>
        /\ tasks[t].error_msg = "ResourceNotFoundException"

\* what the futures as_completed has yielded among 1..k add to the counters
RECURSIVE FailedOf(_)
FailedOf(k) ==
    IF k = 0 THEN 0
    ELSE FailedOf(k - 1)
         + (IF k \notin yielded THEN 0
            ELSE IF tasks[k].pc = "raised"
            THEN Len(MEMORY_CONFIGS(WorkloadType(tasks[k].func)))
                 - Cardinality(Range(MEMORY_CONFIGS(WorkloadType(tasks[k].func)))
                               \ config.memory_configs_to_test)
            ELSE Cardinality({j \in 1..Len(tasks[k].results) :
                                 ~tasks[k].results[j].success}))

RECURSIVE CompletedOf(_)
CompletedOf(k) ==
    IF k = 0 THEN 0
    ELSE CompletedOf(k - 1)
         + (IF k \in yielded /\ tasks[k].pc = "done"
            THEN Cardinality({j \in 1..Len(tasks[k].results) :
                                 tasks[k].results[j].success})
            ELSE 0)

C7_Counted ==
    /\ \A t \in TaskIds :
          tasks[t].pc = "done" =>
             /\ Len(tasks[t].results) = Len(tasks[t].mems)
             /\ \A k \in 1..Len(tasks[t].mems) :
                   tasks[t].results[k].memory_mb = tasks[t].mems[k]
    /\ failed = FailedOf(Len(tasks))
    /\ completed = CompletedOf(Len(tasks))
    /\ aborted => interrupted

C7_Caught ==
    \A t \in TaskIds :
        (InConfig(tasks[t]) /\ tasks'[t].error_msg # None) =>
            /\ tasks'[t].pc = "loop"
            /\ tasks'[t].results =
                  Append(tasks[t].results,
                         [memory_mb |-> tasks[t].memory_mb, success |-> FALSE])
            /\ tasks'[t].mi = tasks[t].mi + 1
            /\ tasks'[t].mems = tasks[t].mems
            /\ \A u \in TaskIds \ {t} : tasks'[u] = tasks[u]
            /\ UNCHANGED <<mpc, aborted, completed, failed, testRun, yielded>>

\* C7: an exception raised while one (function, memory size) is swept ends
\* that configuration only.  The step that raises appends exactly one failed
\* entry for that size to the task's results and moves the task to its next
\* size, changing no other task and nothing of the main thread; a task that
\* returns has an entry for every one of its sizes; the counters hold exactly
\* the entries of the futures collected; and the run is aborted only by an
\* interrupt.
C7_FailureIsPerConfiguration == []C7_Counted /\ [][C7_Caught]_vars

\* the first size failed, the second was swept, the run completed with one
\* failed configuration
C7_Witness ==
    /\ mpc = "done"
    /\ ~interrupted
    /\ Len(tasks) = 1
    /\ tasks[1].pc = "done"
    /\ tasks[1].results = << [memory_mb |-> 128, success |-> FALSE],
                             [memory_mb |-> 256, success |-> TRUE] >>
    /\ testRun.status = "completed"
    /\ testRun.failedInvocations = 1

\* C8: once run_benchmark has ended without an interrupt, with every task
\* finished, a run record that was persisted holds a terminal status.
C8_RunRecordIsTerminal ==
    (/\ mpc \in {"done", "crashed"}
     /\ ~interrupted
     /\ testRun.status # "absent"
     /\ \A t \in TaskIds : Finished(tasks[t]))
        => testRun.status \in {"completed", "failed"}

\* C9: after an interrupt no task that is still queued is started.
C9_NoStartAfterInterrupt ==
    [][interrupted =>
          \A t \in TaskIds : tasks[t].pc = "queued" => tasks'[t].pc = "queued"]_vars

SomeConfigurationFailed ==
    \E t \in TaskIds :
        \/ tasks[t].pc = "raised"
        \/ \E k \in 1..Len(tasks[t].results) : ~tasks[t].results[k].success

\* C10: a terminal status is "failed" exactly when the run was interrupted,
\* and then, and only then, the summary is "aborted by user"; a run that was
\* not interrupted is "completed", with a nonzero failedInvocations and an
\* error summary exactly when some configuration failed.
C10_FinalStatus ==
    testRun.status \in {"completed", "failed"} =>
        /\ testRun.status = "failed" <=> interrupted
        /\ testRun.errorSummary = <<"aborted by user">> <=> interrupted
        /\ ~interrupted =>
              /\ testRun.status = "completed"
              /\ IF SomeConfigurationFailed
                 THEN testRun.failedInvocations > 0 /\ testRun.errorSummary # <<>>
                 ELSE testRun.failedInvocations = 0 /\ testRun.errorSummary = <<>>

\* a run that was not interrupted completed with a failed configuration
C10_Witness ==
    /\ testRun.status = "completed"
    /\ ~interrupted
    /\ testRun.failedInvocations > 0
    /\ testRun.errorSummary # <<>>

\* the sample items of one configuration and phase that the table holds
SamplesOf(func, memory_mb, invocation_type) ==
    {x \in samples : /\ x.func = func
                     /\ x.memorySizeMB = memory_mb
                     /\ x.invocationType = invocation_type}

NumbersOf(func, memory_mb, invocation_type) ==
    {x.invocationNumber : x \in SamplesOf(func, memory_mb, invocation_type)}

HasAggregate(func, memory_mb, invocation_type) ==
    \E a \in aggregates : /\ a.func = func
                          /\ a.memorySizeMB = memory_mb
                          /\ a.invocationType = invocation_type

PerConfig(invocation_type) ==
    IF invocation_type = "cold" THEN config.cold_starts_per_config
    ELSE config.warm_starts_per_config

\* C11: the order of writes within a configuration.  While an aggregate is
\* being computed, and whenever one is in the table, all N (cold) or M (warm)
\* samples of its phase are in the table and the aggregate covers all of
\* them; while a warm invocation is in progress, and whenever a warm sample
\* is in the table, the cold aggregate of that configuration is in the table.
C11_SamplesBeforeAggregates ==
    /\ \A a \in aggregates :
          /\ NumbersOf(a.func, a.memorySizeMB, a.invocationType)
                = 1..PerConfig(a.invocationType)
          /\ a.sampleCount + a.failedCount = PerConfig(a.invocationType)
    /\ \A x \in samples :
          x.invocationType = "warm" => HasAggregate(x.func, x.memorySizeMB, "cold")
    /\ \A t \in TaskIds :
          LET tk == tasks[t] IN
          /\ tk.pc = "agg" =>
                NumbersOf(tk.func, tk.memory_mb, tk.phase) = 1..PerConfig(tk.phase)
          /\ (tk.phase = "warm" /\ tk.pc \in {"invoke", "backoff", "store", "agg"}) =>
                HasAggregate(tk.func, tk.memory_mb, "cold")

\* both aggregates of a configuration with two cold and two warm samples
C11_Witness ==
    /\ config.cold_starts_per_config = 2
    /\ config.warm_starts_per_config = 2
    /\ HasAggregate(1, 128, "cold")
    /\ HasAggregate(1, 128, "warm")
    /\ NumbersOf(1, 128, "cold") = {1, 2}
    /\ NumbersOf(1, 128, "warm") = {1, 2}

\* C12: the warm phase runs without the controller.  force_cold_start runs
\* only in the cold phase and never after the last cold sample; throughout
\* the warm phase the platform holds the target size, no update of the
\* subject having been requested since the controller run that preceded the
\* last cold invocation, and the invocations answered since that run are the
\* last cold one and the warm ones made so far.
C12_NoControllerInWarmPhase ==
    \A t \in TaskIds :
        LET tk == tasks[t] IN
        /\ InFcs(tk) =>
              /\ tk.phase = "cold"
              /\ \/ Len(tk.cold_samples) = 0
                 \/ Len(tk.cold_samples) < config.cold_starts_per_config
        /\ (tk.phase = "warm" /\ tk.pc \in {"invoke", "backoff", "store", "agg"}) =>
              /\ live[tk.func] = tk.memory_mb
              /\ warmth[tk.func].target = tk.memory_mb
              /\ warmth[tk.func].invs =
                    Len(tk.warm_samples)
                    + (IF config.cold_starts_per_config > 0 THEN 1 ELSE 0)

\* two warm invocations were answered after the last cold one
C12_Witness ==
    \E t \in TaskIds :
        /\ tasks[t].phase = "warm"
        /\ tasks[t].pc = "agg"
        /\ Len(tasks[t].warm_samples) = 2
        /\ warmth[tasks[t].func].invs = 3

AggregatesOf(func, memory_mb, invocation_type) ==
    {a \in aggregates : /\ a.func = func
                        /\ a.memorySizeMB = memory_mb
                        /\ a.invocationType = invocation_type}

\* a run of a single subject has ended, uninterrupted, and every invocation
\* of it succeeded
SingleSubjectRunSucceeded ==
    /\ deployed = 1
    /\ mpc = "done"
    /\ ~interrupted
    /\ Len(tasks) = 1
    /\ tasks[1].pc = "done"
    /\ \A k \in 1..Len(tasks[1].results) : tasks[1].results[k].success
    /\ \A x \in samples : x.success

\* C13: after a run of a single subject in which every invocation succeeded,
\* the table holds, for each of the k memory sizes, exactly the cold samples
\* numbered 1..N, the warm samples numbered 1..M, one cold and one warm
\* aggregate, and nothing else; the run record is completed with
\* failedInvocations = 0.
C13_SingleSubjectRun ==
    SingleSubjectRunSucceeded =>
        LET mems == tasks[1].mems
            N == config.cold_starts_per_config
            M == config.warm_starts_per_config
        IN /\ \A k \in 1..Len(mems) :
                 /\ NumbersOf(1, mems[k], "cold") = 1..N
                 /\ NumbersOf(1, mems[k], "warm") = 1..M
                 /\ Cardinality(SamplesOf(1, mems[k], "cold")) = N
                 /\ Cardinality(SamplesOf(1, mems[k], "warm")) = M
                 /\ Cardinality(AggregatesOf(1, mems[k], "cold")) = 1
                 /\ Cardinality(AggregatesOf(1, mems[k], "warm")) = 1
           /\ Cardinality(samples) = Len(mems) * (N + M)
           /\ Cardinality(aggregates) = 2 * Len(mems)
           /\ testRun.status = "completed"
           /\ testRun.failedInvocations = 0

\* sizes [128, 256], N = M = 2: 8 samples and 4 aggregates
C13_Witness ==
    /\ SingleSubjectRunSucceeded
    /\ tasks[1].mems = <<128, 256>>
    /\ config.cold_starts_per_config = 2
    /\ config.warm_starts_per_config = 2
    /\ Cardinality(samples) = 8
    /\ Cardinality(aggregates) = 4
    /\ testRun.status = "completed"
    /\ testRun.failedInvocations = 0

\* the samples of one configuration and phase, as the table holds them, in
\* the order of their invocation numbers
StoredSamples(func, memory_mb, invocation_type) ==
    [k \in 1..Cardinality(SamplesOf(func, memory_mb, invocation_type)) |->
        CHOOSE x \in SamplesOf(func, memory_mb, invocation_type) :
            x.invocationNumber = k]

\* C14: failed samples do not keep the aggregates from being written.  A
\* configuration whose calls all returned has its cold and its warm aggregate
\* in the table, whatever its invocations answered; and every aggregate in
\* the table describes the samples of its own configuration and phase only:
\* sampleCount is the number of successful ones, failedCount the number of
\* failed ones, allSuccessful says that none failed, and the duration
\* statistics are those of the successful samples (none when there is none).
C14_AggregatesCountFailures ==
    /\ \A t \in TaskIds : \A k \in 1..Len(tasks[t].results) :
          tasks[t].results[k].success =>
              /\ HasAggregate(tasks[t].func, tasks[t].results[k].memory_mb, "cold")
              /\ HasAggregate(tasks[t].func, tasks[t].results[k].memory_mb, "warm")
    /\ \A a \in aggregates :
          LET smpls == StoredSamples(a.func, a.memorySizeMB, a.invocationType)
              ok == {k \in 1..Len(smpls) : smpls[k].success}
              ko == {k \in 1..Len(smpls) : ~smpls[k].success}
          IN /\ a.sampleCount = Cardinality(ok)
             /\ a.failedCount = Cardinality(ko)
             /\ a.allSuccessful <=> ko = {}
             /\ IF ok = {} THEN a.durationMsStats = <<>>
                ELSE /\ Len(a.durationMsStats) = 1
                     /\ a.durationMsStats[1].sampleCount = Cardinality(ok)
                     /\ \E k \in ok : a.durationMsStats[1].min = smpls[k].durationMs
                     /\ \E k \in ok : a.durationMsStats[1].max = smpls[k].durationMs
                     /\ \A k \in ok :
                           /\ a.durationMsStats[1].min <= smpls[k].durationMs
                           /\ smpls[k].durationMs <= a.durationMsStats[1].max

\* every invocation at 256 failed, those at 128 succeeded: all four
\* aggregates are in the table
C14_Witness ==
    /\ \A x \in samples : x.success <=> x.memorySizeMB = 128
    /\ \A type \in {"cold", "warm"} :
          /\ \E a \in AggregatesOf(1, 256, type) :
                /\ ~a.allSuccessful
                /\ a.failedCount = 2
                /\ a.sampleCount = 0
                /\ a.durationMsStats = <<>>
          /\ \E a \in AggregatesOf(1, 128, type) :
                /\ a.allSuccessful
                /\ a.failedCount = 0
                /\ a.sampleCount = 2

\* the run of one subject over sizes [128, 256] with two cold and two warm
\* samples each has ended, uninterrupted; every call returned, every
\* invocation at 256 answered a failure and every one at 128 a success
FailuresAt256 ==
    /\ deployed = 1
    /\ mpc = "done"
    /\ ~interrupted
    /\ Len(tasks) = 1
    /\ tasks[1].pc = "done"
    /\ tasks[1].mems = <<128, 256>>
    /\ \A k \in 1..Len(tasks[1].results) : tasks[1].results[k].success
    /\ Cardinality(samples) = 8
    /\ \A x \in samples : x.success <=> x.memorySizeMB = 128

\* C15: in that scenario the run record is completed and its
\* failedInvocations is the number of failed samples, those at 256, and so
\* is not zero.
C15_FailedInvocationsCountsSamples ==
    FailuresAt256 =>
        /\ testRun.status = "completed"
        /\ testRun.failedInvocations # 0
        /\ testRun.failedInvocations = Cardinality({x \in samples : ~x.success})

HyphenFree(s) == \A k \in 1..Len(s) : s[k] # "-"

\* C17: for a tuple whose runtime, architecture and workload type hold no
\* hyphen, parsing the identifier built from it returns exactly its runtime,
\* architecture, workload type and memory size.
C17_RoundTrip ==
    (/\ util.pc = "done"
     /\ util.tuple # NoTuple
     /\ HyphenFree(util.tuple.runtime)
     /\ HyphenFree(util.tuple.architecture)
     /\ HyphenFree(util.tuple.workloadType))
        => /\ util.parsed.error = None
           /\ util.parsed.result = <<util.tuple>>

\* python3.13, arm64, light, 1769 came back from python3.13-arm64-light-1769
C17_Witness ==
    /\ util.pc = "done"
    /\ util.tuple = [runtime |-> python3_13, architecture |-> arm64,
                     workloadType |-> light, memorySizeMB |-> 1769]
    /\ util.config_id = python3_13 \o <<"-">> \o arm64 \o <<"-">> \o light
                            \o <<"-", "1", "7", "6", "9">>
    /\ util.parsed = Return(util.tuple)

\* C18: for a tuple with a hyphen-free runtime and a workload type that
\* holds hyphens, such as cpu-intensive, parsing the identifier built from it
\* returns the original runtime, architecture, full workload type and memory
\* size.
C18_HyphenatedWorkloadType ==
    (/\ util.pc = "done"
     /\ util.tuple # NoTuple
     /\ HyphenFree(util.tuple.runtime)
     /\ util.tuple.workloadType \in {cpu_intensive, memory_intensive})
        => util.parsed = Return(util.tuple)

\* C19: parse_config_id raises ValueError, and returns nothing, for every
\* identifier with fewer than four hyphen-delimited components.
C19_TooFewComponents ==
    (util.pc = "done" /\ Components(util.config_id) < 4)
        => /\ util.parsed.error = "ValueError"
           /\ util.parsed.result = <<>>

\* an identifier of three components, the last one a number, was refused
C19_Witness ==
    /\ util.pc = "done"
    /\ util.config_id = <<"a", "-", "a", "-", "7">>
    /\ util.parsed = Raise("ValueError")

\* C20: the identifier is unique per tuple.  Among tuples with a hyphen-free
\* runtime, architecture arm64 or x86 and any workload type, only the tuple
\* an identifier was built from yields that identifier.
C20_UniquePerTuple ==
    util.pc \in {"parse", "done"} /\ util.tuple # NoTuple =>
        \A other \in ConfigTuples :
            make_config_id(other, other.memorySizeMB) = util.config_id
                => other = util.tuple

\* the identifier of (r, arm64, c-1, 2), next to which the set of tuples
\* holds (r, arm64, c, 12) and (r, arm64, c1, 2)
C20_Witness ==
    /\ util.pc = "parse"
    /\ util.tuple = [runtime |-> <<"r">>, architecture |-> arm64,
                     workloadType |-> <<"c", "-", "1">>, memorySizeMB |-> 2]
    /\ util.config_id = <<"r", "-">> \o arm64 \o <<"-", "c", "-", "1", "-", "2">>
    /\ [runtime |-> <<"r">>, architecture |-> arm64,
        workloadType |-> <<"c">>, memorySizeMB |-> 12] \in ConfigTuples
    /\ [runtime |-> <<"r">>, architecture |-> arm64,
        workloadType |-> <<"c", "1">>, memorySizeMB |-> 2] \in ConfigTuples

\* the samples the task holds for its current phase
PhaseSamples(tk) == IF tk.phase = "cold" THEN tk.cold_samples ELSE tk.warm_samples

C16_OnePerResponse ==
    /\ \A x \in samples :
          /\ x.pk = <<test_run_id, make_config_id(function_info(x.func), x.memorySizeMB)>>
          /\ x.sk = <<x.invocationType, x.invocationNumber>>
          /\ \A y \in samples : SampleKey(y) = SampleKey(x) => y = x
    /\ \A t \in TaskIds :
          LET tk == tasks[t]
              n == Len(PhaseSamples(tk))
              stored == StoredSamples(tk.func, tk.memory_mb, tk.phase)
              written == IF tk.pc = "store" THEN n - 1 ELSE n
          IN InConfig(tk) =>
                /\ NumbersOf(tk.func, tk.memory_mb, tk.phase) = 1..written
                /\ Len(stored) = written
                /\ \A k \in 1..written :
                      /\ stored[k].success = PhaseSamples(tk)[k].success
                      /\ stored[k].durationMs = PhaseSamples(tk)[k].durationMs
                /\ tk.pc = "store" => tk.i + 1 = n

C16_WriteOnce ==
    /\ samples \subseteq samples'
    /\ Cardinality(samples') <= Cardinality(samples) + 1
    /\ \A t \in TaskIds :
          (tasks[t].pc = "store" /\ tasks'[t].pc # "store"
           /\ tasks'[t].error_msg = None)
              => /\ Cardinality(samples') = Cardinality(samples) + 1
                 /\ \E x \in samples' \ samples :
                       /\ x.func = tasks[t].func
                       /\ x.memorySizeMB = tasks[t].memory_mb
                       /\ x.sk = <<tasks[t].phase, Len(PhaseSamples(tasks[t]))>>

\* C16: one sample write per response.  Every sample item has the key
\* (run id # configuration id, cold|warm # k) and no two items share a key.
\* A response is in the table, under the next number k = 1, 2, ... of its
\* phase, before the task makes its next invocation or controller call: while
\* store_result is in progress the table holds all earlier responses of the
\* phase and at any other point of the configuration all of them, each as it
\* was answered.  The step in which store_result returns adds exactly one
\* item and no step removes or replaces an item.  (A store_result that raises
\* writes nothing and ends the configuration.)
C16_SamplesWrittenOnce == []C16_OnePerResponse /\ [][C16_WriteOnce]_vars

\* eight samples of one run under eight keys
C16_Witness ==
    /\ Cardinality(samples) = 8
    /\ Cardinality({SampleKey(x) : x \in samples}) = 8
    /\ \E x \in samples :
          /\ x.pk = <<test_run_id, python3_13 \o <<"-">> \o arm64 \o <<"-">> \o light
                                     \o <<"-", "2", "5", "6">> >>
          /\ x.sk = <<"warm", 2>>

\* C21: percentile of a non-empty ascending list.  At p = 0 it is the
\* smallest element and at p = 1 the largest; it does not decrease as p
\* grows; and it is the linear interpolation between the two elements that
\* bracket the rank p * (n - 1): it lies between them, on the line through
\* them.  (p in percent, the result in hundredths of the elements' unit.)
C21_PercentileInterpolates ==
    (util.pc = "percentile returned" /\ util.values # <<>>) =>
        LET v == util.values
            n == Len(v)
            rank == util.p * (n - 1)
            below == (rank \div 100) + 1
            above == Min(below + 1, n)
            result == util.result[1]
        IN /\ util.p = 0 => result = 100 * v[1]
           /\ util.p = 100 => result = 100 * v[n]
           /\ \A q \in Percents : q <= util.p => percentile(v, q) <= result
           /\ 100 * v[below] <= result
           /\ result <= 100 * v[above]
           /\ result - 100 * v[below]
                 = (rank - 100 * (below - 1)) * (v[above] - v[below])

\* percentile([10, 20, 30], 0.95) = 29.0, between the second and the third
C21_Witness ==
    /\ util.pc = "percentile returned"
    /\ util.values = <<1000, 2000, 3000>>
    /\ util.p = 95
    /\ util.result = <<290000>>

\* C22: what calculate_statistics computes from.  With trimming enabled and
\* at least 5 values, mean, median, mode, stdev and the percentiles are those
\* of the input with one smallest and one largest element taken out (one
\* instance only of a duplicated extreme); with fewer than 5 values, or
\* trimming disabled, they are those of all the values.  outliersRemoved is
\* true exactly in the first case.  (The mode is here a most frequent value;
\* which one of several is C25.)
C22_TrimmedComputation ==
    (util.pc = "calculate_statistics returned" /\ util.values # <<>>) =>
        LET v == util.values
            n == Len(v)
            stats == util.result[1]
            trimmed == util.remove_outliers /\ n >= 5
            Without(s, i) ==
                [k \in 1..(Len(s) - 1) |-> IF k < i THEN s[k] ELSE s[k + 1]]
            smallest == CHOOSE i \in 1..n : \A k \in 1..n : v[i] <= v[k]
            others == Without(v, smallest)
            largest == CHOOSE j \in 1..(n - 1) :
                          \A k \in 1..(n - 1) : others[j] >= others[k]
            rest == IF trimmed THEN Without(others, largest) ELSE v
            count(x) == Cardinality({k \in 1..Len(rest) : rest[k] = x})
        IN /\ stats.outliersRemoved = trimmed
           /\ Len(rest) = IF trimmed THEN n - 2 ELSE n
           /\ stats.mean = Round2(Sum(rest), Len(rest))
           /\ stats.median = StatMedian(rest)
           /\ stats.stdev = StatStdev(rest)
           /\ stats.p50 = Round2(percentile(Sorted(rest), 50), 100)
           /\ stats.p90 = Round2(percentile(Sorted(rest), 90), 100)
           /\ stats.p95 = Round2(percentile(Sorted(rest), 95), 100)
           /\ stats.p99 = Round2(percentile(Sorted(rest), 99), 100)
           /\ count(stats.mode) > 0
           /\ \A k \in 1..Len(rest) : count(rest[k]) <= count(stats.mode)

\* [30, 10, 20, 10, 30] trimmed: one 10 and one 30 are taken out,
\* [10, 20, 30] is left
C22_Witness ==
    /\ util.pc = "calculate_statistics returned"
    /\ util.values = <<3000, 1000, 2000, 1000, 3000>>
    /\ util.remove_outliers
    /\ util.result[1].outliersRemoved
    /\ util.result[1].mean = 2000
    /\ util.result[1].median = 2000
    /\ util.result[1].stdev = 1000
    /\ util.result[1].p90 = 2800

\* C23: the min and the max of a summary are the smallest and the largest of
\* all the values given, trimmed or not.  [10, 20, 30, 1000, 15] with trimming
\* is computed from 15, 20, 30: the mean is 21.67, min 10 and max 1000.
C23_ExtremesOfFullInput ==
    (util.pc = "calculate_statistics returned" /\ util.values # <<>>) =>
        LET v == util.values
            stats == util.result[1]
        IN /\ \E k \in 1..Len(v) : stats.min = v[k]
           /\ \E k \in 1..Len(v) : stats.max = v[k]
           /\ \A k \in 1..Len(v) : stats.min <= v[k] /\ v[k] <= stats.max
           /\ (v = <<1000, 2000, 3000, 100000, 1500>> /\ util.remove_outliers) =>
                 /\ Sorted(calc_values(v, TRUE)) = <<1500, 2000, 3000>>
                 /\ stats.mean = 2167
                 /\ stats.min = 1000
                 /\ stats.max = 100000

\* the summary of [10, 20, 30, 1000, 15], trimmed
C23_Witness ==
    /\ util.pc = "calculate_statistics returned"
    /\ util.values = <<1000, 2000, 3000, 100000, 1500>>
    /\ util.remove_outliers
    /\ util.result[1].outliersRemoved
    /\ util.result[1].max = 100000
    /\ util.result[1].p99 < 3000

\* C24: every summary of a non-empty input has
\* min <= p50 <= p90 <= p95 <= p99 <= max, when nothing was trimmed and when
\* the extremes were (min and max being those of all the values).
C24_PercentilesOrdered ==
    (util.pc = "calculate_statistics returned" /\ util.values # <<>>) =>
        LET stats == util.result[1]
        IN /\ stats.min <= stats.p50
           /\ stats.p50 <= stats.p90
           /\ stats.p90 <= stats.p95
           /\ stats.p95 <= stats.p99
           /\ stats.p99 <= stats.max

\* a trimmed summary of values given in no order, all six apart
C24_Witness ==
    /\ util.pc = "calculate_statistics returned"
    /\ util.values = <<2000, 3000, 1000, 1500, 3000>>
    /\ util.result[1].outliersRemoved
    /\ util.result[1].min < util.result[1].p50
    /\ util.result[1].p50 < util.result[1].p90
    /\ util.result[1].p90 < util.result[1].p95
    /\ util.result[1].p95 < util.result[1].p99
    /\ util.result[1].p99 < util.result[1].max

\* C25: the mode of a summary is the most frequent value (rounded to two
\* decimals), and of several equally frequent values the one that comes first
\* when the values computed from are sorted ascending, that is the smallest
\* of them: for every input, trimmed or not, in whatever order it is given.
C25_ModeTiesBySortOrder ==
    (util.pc = "calculate_statistics returned" /\ util.values # <<>>) =>
        LET calc == calc_values(util.values, util.remove_outliers)
            count(x) == Cardinality({k \in 1..Len(calc) : calc[k] = x})
            mostFrequent == {calc[k] : k \in {j \in 1..Len(calc) :
                                \A i \in 1..Len(calc) : count(calc[i]) <= count(calc[j])}}
        IN /\ util.result[1].mode \in mostFrequent
           /\ \A x \in mostFrequent : util.result[1].mode <= x

\* C26: no data is not an error.  percentile of an empty list is 0 and of a
\* one-element list that element; calculate_statistics of an empty list is
\* the empty summary; and write_aggregate writes the aggregate of a phase
\* also when a metric has no value, for instance when no sample succeeded:
\* the statistics of that metric are then the empty summary.
C26_EmptyIsNoData ==
    /\ util.pc = "percentile returned" =>
          /\ util.values = <<>> => util.result = <<0>>
          /\ Len(util.values) = 1 => util.result = <<100 * util.values[1]>>
    /\ util.pc = "calculate_statistics returned" =>
          (util.values = <<>> <=> util.result = <<>>)
    /\ util.pc = "write_aggregate returned" =>
          LET sample == util.result[1]
              type == IF util.is_cold_start THEN "cold" ELSE "warm"
          IN /\ Cardinality(AggregatesOf(1, 128, type)) = 1
             /\ \A a \in AggregatesOf(1, 128, type) :
                   /\ a.sampleCount = IF sample.success THEN 1 ELSE 0
                   /\ a.durationMsStats = <<>>
                         <=> ~(sample.success /\ "durationMs" \in DOMAIN sample)
                   /\ a.billedDurationMsStats = <<>>
                         <=> ~(sample.success /\ "billedDurationMs" \in DOMAIN sample)
                   /\ a.memoryMBStats = <<>>
                         <=> ~(sample.success /\ "memoryUsedMB" \in DOMAIN sample)

\* the aggregate of a phase whose only sample failed, and which has no
\* statistics
C26_Witness ==
    /\ util.pc = "write_aggregate returned"
    /\ ~util.result[1].success
    /\ \E a \in aggregates :
          /\ a.sampleCount = 0
          /\ a.failedCount = 1
          /\ a.durationMsStats = <<>>
          /\ a.billedDurationMsStats = <<>>
          /\ a.memoryMBStats = <<>>

\* C27: parse_cloudwatch_report reads each field of the REPORT line on its
\* own.  Whatever subset of Duration, Billed Duration, Max Memory Used and
\* Init Duration the line carries, the result has a field exactly when the
\* line has it, with the value the line gives for it; a line with a Billed
\* Duration or an Init Duration and no Duration gives no duration.
C27_FieldsIndependent ==
    (/\ util.pc = "parse_cloudwatch_report returned"
     /\ util.kind \in {"report", "report among lines"}) =>
        LET metrics == util.result[1]
        IN /\ "duration_ms" \in DOMAIN metrics <=> "Duration" \in util.fields
           /\ "duration_ms" \in DOMAIN metrics => metrics.duration_ms = 1234
           /\ "billed_duration_ms" \in DOMAIN metrics
                 <=> "Billed Duration" \in util.fields
           /\ "billed_duration_ms" \in DOMAIN metrics
                 => metrics.billed_duration_ms = 13
           /\ "memory_used_mb" \in DOMAIN metrics
                 <=> "Max Memory Used" \in util.fields
           /\ "memory_used_mb" \in DOMAIN metrics => metrics.memory_used_mb = 50
           /\ "init_duration_ms" \in DOMAIN metrics
                 <=> "Init Duration" \in util.fields
           /\ "init_duration_ms" \in DOMAIN metrics
                 => metrics.init_duration_ms = 25050

\* C28: a response without a LogResult, with an empty one, or with a log
\* that has no REPORT line gives empty metrics, not an error: invoke_function
\* returns a sample all the same, store_result writes it, and neither the
\* sample nor the item written has a duration, a billed duration, a memory
\* or an init duration.
C28_NoReportNoMetrics ==
    /\ (util.pc = "parse_cloudwatch_report returned"
        /\ util.kind \in {"empty", "no marker"}) => util.result = << <<>> >>
    /\ (util.pc \in {"store_result", "write_aggregate", "write_aggregate returned"}
        /\ util.kind \in {"missing", "empty", "no marker"}) =>
          /\ Len(util.result) = 1
          /\ DOMAIN util.result[1] = {"success", "statusCode", "lambdaRequestId"}
          /\ util.pc # "store_result" =>
                /\ Cardinality(samples) = 1
                /\ \A x \in samples :
                      /\ x.success = util.result[1].success
                      /\ x.sk = <<IF util.is_cold_start THEN "cold" ELSE "warm", 1>>
                      /\ DOMAIN x \cap {"durationMs", "billedDurationMs",
                                        "maxMemoryUsedMB", "initDurationMs"} = {}

\* the sample of a cold invocation that succeeded, whose log has the four
\* numbers and no REPORT marker, is in the table
C28_Witness ==
    /\ util.pc = "write_aggregate returned"
    /\ util.kind = "no marker"
    /\ util.fields = ReportFields
    /\ util.is_cold_start
    /\ "FunctionError" \notin DOMAIN util.response
    /\ \E x \in samples :
          /\ x.success
          /\ "durationMs" \notin DOMAIN x
          /\ "initDurationMs" \notin DOMAIN x

\* C29: the success flag of a sample is the "success" field of the payload
\* the handler returned, and false when the payload has none, whatever the
\* StatusCode of the response and whether or not it has a FunctionError; the
\* item written carries the same flag.  An invocation that the platform
\* answered with 200 and whose payload says success = false is a failed
\* sample.
C29_SuccessIsThePayloads ==
    util.pc \in {"store_result", "write_aggregate", "write_aggregate returned"} =>
        LET payload == util.response.Payload
            declared == IF "success" \in DOMAIN payload THEN payload.success
                        ELSE FALSE
        IN /\ util.result[1].success = declared
           /\ util.result[1].statusCode = util.response.StatusCode
           /\ util.pc # "store_result" => \A x \in samples : x.success = declared

\* answered with 200, no FunctionError, success = false in the payload: the
\* sample written is a failed one
C29_Witness ==
    /\ util.pc = "write_aggregate returned"
    /\ util.response.StatusCode = 200
    /\ "FunctionError" \notin DOMAIN util.response
    /\ util.response.Payload = [success |-> FALSE]
    /\ util.kind = "report"
    /\ \E x \in samples : ~x.success /\ "durationMs" \in DOMAIN x

\* a step that changes a counter is a step of the collection loop
C30_CountersStep ==
    (completed' # completed \/ failed' # failed) =>
        /\ mpc = "collect"
        /\ mpc' = "collect"
        /\ tasks' = tasks
        /\ \E t \in TaskIds \ yielded :
              /\ Finished(tasks[t])
              /\ yielded' = yielded \cup {t}
              /\ completed' = completed
                    + (IF tasks[t].pc = "done"
                       THEN Cardinality({k \in 1..Len(tasks[t].results) :
                                            tasks[t].results[k].success})
                       ELSE 0)
              /\ failed' = failed
                    + (IF tasks[t].pc = "done"
                       THEN Cardinality({k \in 1..Len(tasks[t].results) :
                                            ~tasks[t].results[k].success})
                       ELSE Len(get_memory_configs_for_workload(
                                    WorkloadType(tasks[t].func), config)))

\* the counters are the sums over the futures yielded
C30_CountersOfYielded ==
    /\ completed = CompletedOf(Len(tasks))
    /\ failed = FailedOf(Len(tasks))
    /\ yielded = {} => completed = 0 /\ failed = 0

\* C30: the progress counters.  completed and failed change only in a step
\* of the main thread's collection loop, in which as_completed yields one
\* future that has returned or raised and that was not yielded before; the
\* step adds that future's counts (its successful and failed configurations,
\* or all its configurations when it raised) and changes no task, so no step
\* of a worker changes a counter.  The counters are at all times the sums
\* over the futures yielded so far: no count is lost, however many futures
\* are finished when the loop takes one.  (The collection step is the region
\* under progress_lock, taken as one step.)
C30_CountersOnlyInCollection == []C30_CountersOfYielded /\ [][C30_CountersStep]_vars

\* two futures are finished, one has been yielded and counted, the other
\* has not yet
C30_Witness ==
    \E t, u \in TaskIds :
        /\ t # u
        /\ yielded = {t}
        /\ tasks[t].pc = "done"
        /\ Finished(tasks[u])
        /\ completed = 1
        /\ failed = 0
        /\ Len(tasks[t].results) = 1

\* at most max_workers tasks are running
C31_RunningBounded ==
    Cardinality({u \in TaskIds : Running(tasks[u])}) <= config.max_workers

\* a task starts when fewer than max_workers are running, and a task that
\* has started stays with its worker until it has returned, with a result
\* for every memory size of its sweep, or raised
C31_StartsOnFreeWorker ==
    \A t \in TaskIds :
        /\ (tasks[t].pc = "queued" /\ tasks'[t].pc # "queued") =>
              Cardinality({u \in TaskIds : Running(tasks[u])}) < config.max_workers
        /\ tasks[t].pc # "queued" => tasks'[t].pc # "queued"
        /\ (Running(tasks[t]) /\ tasks'[t].pc = "done") =>
              Len(tasks'[t].results) = Len(tasks'[t].mems)

\* C31: the pool size bounds the subjects in flight.  At any time at most
\* max_workers tasks (one per subject) are running, and a worker takes the
\* next subject only after the subject it ran has finished its whole memory
\* sweep: a task starts only when fewer than max_workers tasks are running,
\* and a running task ends only by returning a result for every memory size
\* or by raising.
C31_PoolBoundsSubjects == []C31_RunningBounded /\ [][C31_StartsOnFreeWorker]_vars

\* two subjects and one worker: the second subject is running, the first has
\* returned
C31_Witness ==
    /\ config.max_workers = 1
    /\ Len(tasks) = 2
    /\ tasks[1].pc = "done"
    /\ Len(tasks[1].results) = 1
    /\ Running(tasks[2])

\* while no run record is written, no task is submitted and no sample or
\* aggregate is written; when run_benchmark has ended without an interrupt,
\* the status of the record it wrote has been changed
C32_WrittenFirstChangedAtEnd ==
    /\ testRun.status = "absent" =>
          tasks = <<>> /\ samples = {} /\ aggregates = {}
    /\ (mpc \in {"done", "crashed"} /\ ~interrupted /\ testRun.status # "absent")
          => testRun.status # "in_progress"

\* the record is written as in_progress, its status then changes from
\* in_progress to completed or failed, in a step of the main thread that
\* changes no task, and does not change again
C32_StatusChanges ==
    testRun'.status # testRun.status =>
        /\ tasks' = tasks
        /\ \/ testRun.status = "absent" /\ testRun'.status = "in_progress"
           \/ /\ testRun.status = "in_progress"
              /\ testRun'.status \in {"completed", "failed"}
              /\ mpc = "finalize"

\* C32: the run record is written with status in_progress before any task is
\* submitted and before any sample is written; afterwards its status is
\* changed exactly once, by the main thread only, to completed or failed,
\* and never back to in_progress.
C32_RunRecordLifecycle ==
    []C32_WrittenFirstChangedAtEnd /\ [][C32_StatusChanges]_vars

\* C33: init-duration data exists for cold data only.  The item of a sample
\* has an initDurationMs exactly when the sample is a cold one and the report
\* gave the value, and it is that value; an aggregate has init-duration
\* statistics exactly when it is a cold aggregate and some successful sample
\* of it has the value.  A warm sample and a warm aggregate have neither,
\* also when the report of the warm invocation has an Init Duration.
C33_InitDurationOnlyCold ==
    util.pc \in {"write_aggregate", "write_aggregate returned"} =>
        LET sample == util.result[1] IN
        /\ \A x \in samples :
              /\ "initDurationMs" \in DOMAIN x
                    <=> (x.invocationType = "cold" /\ util.is_cold_start
                         /\ "initDurationMs" \in DOMAIN sample)
              /\ "initDurationMs" \in DOMAIN x =>
                    x.initDurationMs = sample.initDurationMs
        /\ \A a \in aggregates :
              /\ "initDurationMsStats" \in DOMAIN a
                    <=> (a.invocationType = "cold" /\ util.is_cold_start
                         /\ sample.success /\ "initDurationMs" \in DOMAIN sample)
              /\ "initDurationMsStats" \in DOMAIN a =>
                    /\ Len(a.initDurationMsStats) = 1
                    /\ a.initDurationMsStats[1].min = sample.initDurationMs

\* a warm invocation that succeeded and whose report has an Init Duration:
\* the sample returned has it, the item and the aggregate written have not
C33_Witness ==
    /\ util.pc = "write_aggregate returned"
    /\ ~util.is_cold_start
    /\ util.result[1].success
    /\ "initDurationMs" \in DOMAIN util.result[1]
    /\ util.result[1].initDurationMs = 25050
    /\ \E x \in samples :
          /\ x.invocationType = "warm"
          /\ "initDurationMs" \notin DOMAIN x
          /\ "durationMs" \in DOMAIN x
    /\ \E a \in aggregates :
          /\ a.invocationType = "warm"
          /\ "initDurationMsStats" \notin DOMAIN a
          /\ a.durationMsStats # <<>>

\* C34: every warm invocation meets an execution environment that an
\* earlier invocation has initialised: when the warm loop is about to invoke
\* the function, the function has answered at least one invocation since the
\* last update of its configuration, whatever the numbers of cold and of
\* warm samples are.
C34_WarmAfterEarlierInvocation ==
    \A t \in TaskIds :
        (tasks[t].pc = "invoke" /\ tasks[t].phase = "warm")
            => warmth[tasks[t].func].invs >= 1

\* every update_function_configuration of force_cold_start that returns
\* leaves the function another memory size than it had
C35_UpdateChangesLive ==
    \A t \in TaskIds :
        (tasks[t].pc \in {"fcs_upd_temp", "fcs_upd_target"}
         /\ tasks'[t].pc \in {"fcs_wait_temp", "fcs_wait_target"})
            => live'[tasks[t].func] # live[tasks[t].func]

\* a force_cold_start that has read the target as the live setting requests
\* another value first, and one that has returned has made a request
C35_TemporaryDiffers ==
    \A t \in TaskIds :
        LET tk == tasks[t] IN
        /\ (tk.pc = "fcs_wait_temp" /\ tk.current_memory = tk.memory_mb)
              => /\ live[tk.func] # tk.memory_mb
                 /\ tk.trace[Len(tk.trace)] = <<"update", live[tk.func]>>
        /\ tk.pc = "invoke"
              => \E k \in 1..Len(tk.trace) : tk.trace[k][1] = "update"

\* C35: for every target in 128..10240 that equals the live setting, the
\* temporary value force_cold_start requests differs from the target, and
\* so every force_cold_start that returns has changed the live memory
\* setting of the function at least once: each of its requests has.
C35_ControllerChangesSetting ==
    []C35_TemporaryDiffers /\ [][C35_UpdateChangesLive]_vars

\* force_cold_start has returned for a target so near the maximum that the
\* temporary value was clamped to the maximum
C35_Witness ==
    \E t \in TaskIds :
        /\ tasks[t].pc = "invoke"
        /\ tasks[t].memory_mb = LAMBDA_MEMORY_MAX_MB - 1
        /\ tasks[t].current_memory = tasks[t].memory_mb
        /\ tasks[t].trace[1] = <<"update", LAMBDA_MEMORY_MAX_MB>>
        /\ live[tasks[t].func] = tasks[t].memory_mb

\* the counters never exceed the number of configurations of the run, and a
\* run that has left the pool without an interrupt has counted every one
C36_CountersWithinTotal ==
    LET total_tests == TotalTests(functions, config) IN
    /\ completed + failed <= total_tests
    /\ testRun # NoTestRun => testRun.totalConfigurations = total_tests
    /\ (mpc \in {"finalize", "done"} /\ ~interrupted)
          => completed + failed = total_tests
    /\ (mpc = "crashed" /\ ~interrupted /\ testRun # NoTestRun)
          => completed + failed = total_tests

\* the step that collects a future that raised adds every memory size of
\* its function to failed and nothing to completed
C36_RaisedCountsEverySize ==
    \A t \in TaskIds :
        (t \in yielded' /\ t \notin yielded /\ tasks[t].pc = "raised")
            => /\ failed' = failed + Len(tasks[t].mems)
               /\ completed' = completed

\* C36: at every point of a run completed + failed <= totalConfigurations,
\* and when the run ends without an interrupt completed + failed =
\* totalConfigurations; a function whose task raises outside
\* benchmark_function_single_memory adds all its memory sizes to failed.
C36_CountersCoverConfigurations ==
    []C36_CountersWithinTotal /\ [][C36_RaisedCountsEverySize]_vars

\* the task raised after it had swept the first of its two sizes; the run
\* ended without an interrupt with both sizes counted as failed
C36_Witness ==
    /\ mpc = "done"
    /\ ~interrupted
    /\ Len(tasks) = 1
    /\ tasks[1].pc = "raised"
    /\ Len(tasks[1].mems) = 2
    /\ Len(tasks[1].results) = 1
    /\ failed = 2
    /\ completed = 0

\* the configurations of task t that have ended with an exception
FailedSizes(t) ==
    {tasks[t].results[k].memory_mb :
        k \in {j \in 1..Len(tasks[t].results) : ~tasks[t].results[j].success}}

\* what the table holds of a configuration that has failed: no warm
\* aggregate, and a warm sample only beside the cold aggregate
C37_FailedConfigurations ==
    \A t \in TaskIds : \A memory_mb \in FailedSizes(t) :
        /\ ~HasAggregate(tasks[t].func, memory_mb, "warm")
        /\ SamplesOf(tasks[t].func, memory_mb, "warm") # {}
              => HasAggregate(tasks[t].func, memory_mb, "cold")

\* the step in which a configuration fails writes nothing; in the cold phase
\* it leaves no cold aggregate, no warm sample and no warm aggregate, in the
\* warm phase the cold aggregate and no warm aggregate; and no later step
\* writes or removes an item of a configuration that has failed
C37_FailureWritesNothing ==
    \A t \in TaskIds :
        LET tk == tasks[t] IN
        /\ (Len(tasks'[t].results) = Len(tk.results) + 1
            /\ ~tasks'[t].results[Len(tk.results) + 1].success)
              => /\ samples' = samples
                 /\ aggregates' = aggregates
                 /\ tasks'[t].results[Len(tk.results) + 1].memory_mb = tk.memory_mb
                 /\ tk.phase \in {"cold", "warm"}
                 /\ tk.phase = "cold"
                       => /\ ~HasAggregate(tk.func, tk.memory_mb, "cold")
                          /\ SamplesOf(tk.func, tk.memory_mb, "warm") = {}
                          /\ ~HasAggregate(tk.func, tk.memory_mb, "warm")
                 /\ tk.phase = "warm"
                       => /\ HasAggregate(tk.func, tk.memory_mb, "cold")
                          /\ ~HasAggregate(tk.func, tk.memory_mb, "warm")
        /\ \A memory_mb \in FailedSizes(t) :
              \A invocation_type \in {"cold", "warm"} :
                 /\ {x \in samples' : /\ x.func = tk.func
                                      /\ x.memorySizeMB = memory_mb
                                      /\ x.invocationType = invocation_type}
                       = SamplesOf(tk.func, memory_mb, invocation_type)
                 /\ {a \in aggregates' : /\ a.func = tk.func
                                         /\ a.memorySizeMB = memory_mb
                                         /\ a.invocationType = invocation_type}
                       = AggregatesOf(tk.func, memory_mb, invocation_type)

\* C37: an aggregate is written over a complete sample group only.  If a
\* step of the cold phase of a configuration raises, no cold aggregate, no
\* warm sample and no warm aggregate are written for it; if a step of its
\* warm phase raises, the cold aggregate stays and no warm aggregate is
\* written; the samples persisted before the failure remain in the table.
C37_NoAggregateAfterFailure ==
    []C37_FailedConfigurations /\ [][C37_FailureWritesNothing]_vars

\* the warm phase failed after its first sample was persisted: the cold
\* aggregate and the samples are in the table, a warm aggregate is not
C37_Witness ==
    \E t \in TaskIds :
        /\ 128 \in FailedSizes(t)
        /\ HasAggregate(tasks[t].func, 128, "cold")
        /\ NumbersOf(tasks[t].func, 128, "cold") = {1, 2}
        /\ NumbersOf(tasks[t].func, 128, "warm") = {1}
        /\ ~HasAggregate(tasks[t].func, 128, "warm")

\* the run record holds a terminal status
RunRecordTerminal == testRun.status \in {"completed", "failed"}

\* once the run record is terminal no step writes a sample or an aggregate
C38_NoWriteOnceTerminal ==
    RunRecordTerminal => (samples' = samples /\ aggregates' = aggregates)

\* when the run record is terminal every task that was started is finished
C38_WorkersFinishedAtTerminal ==
    RunRecordTerminal => \A t \in TaskIds : ~Running(tasks[t])

\* C38: no sample and no aggregate is written after the run record has been
\* set to a terminal status, also when the run is interrupted: the terminal
\* status is set only after every task that was started has returned or
\* raised.
C38_NoWriteAfterTerminal ==
    []C38_WorkersFinishedAtTerminal /\ [][C38_NoWriteOnceTerminal]_vars

\* C39: the mode of the run record names the preset the run was started
\* with: "test" for TEST_CONFIG, "balanced" for BALANCED_CONFIG and
\* "production" for PRODUCTION_CONFIG.
C39_ModeNamesPreset ==
    (util.pc = "run_benchmark" /\ testRun # NoTestRun)
        => testRun.mode = util.args.preset

====
